---- MODULE Spec2Model ----
(***************************************************************************)
(* zshrcman: the profile-scoped installation state engine.                 *)
(*                                                                         *)
(* The model covers InstallationStateManager (state_manager.rs),           *)
(* ProfileSwitcher (profile_switcher.rs), the PATH/variable projection of  *)
(* EnvironmentManager (environment.rs), the group lists of ConfigManager   *)
(* (config.rs), InstallManager::install and remove_all with the zshrc      *)
(* installer (install.rs), AliasManager (alias.rs), InitManager::run       *)
(* (init.rs) and the command handlers of main.rs.  A world record `w`      *)
(* carries the configuration the manager holds in memory (ledger,          *)
(* registry, pointer, group lists and alias groups), what the              *)
(* configuration file reads as, the process environment and the files and  *)
(* directories that the switcher and the installers touch; every Rust      *)
(* method is an operator from world to world, and `?` is the early return  *)
(* on w.err.  A command of main.rs is a new process: it starts from the    *)
(* environment of the shell (shell_env) and a manager loaded from the      *)
(* file; a command that waits at a prompt may save a manager that was      *)
(* loaded before the previous operation.                                   *)
(*                                                                         *)
(* Strings are Rust strings; Option<T> is <<>> (None) or <<x>> (Some(x));  *)
(* HashMap<K,V> is a function whose DOMAIN is the key set; HashSet is a    *)
(* set, written in an iteration order that is an input; a timestamp is     *)
(* its date and time to the second and its nanoseconds.  The install       *)
(* status map, the repository and the device of the configuration are      *)
(* left out.                                                               *)
(***************************************************************************)
EXTENDS Integers, Sequences, FiniteSets, TLC

VARIABLES installations, profiles, active_profile, disk, env, shell_env, bins,
          shellrc, dirs, shell_type, envfile, groups, groups_file, peer, last, nops

vars == <<installations, profiles, active_profile, disk, env, shell_env, bins,
          shellrc, dirs, shell_type, envfile, groups, groups_file, peer, last, nops>>

----------------------------------------------------------------------------
(* Inputs of the model.                                                    *)

ProfileNames == {"work", "personal"}

Packages == {"nodejs", "git"}

Scopes == {"Global", "Profile"}

Strategies == {"Deactivate", "RemoveFromProfile", "SmartRemove", "ForceRemove", "MarkUnused"}

(* One external failure per operation: the n-th write of the configuration *)
(* file fails at the open (save1, save2) or at the write, after the file   *)
(* was truncated (save1w, save2w); the profile bin directory cannot be     *)
(* created (bin); the shell startup file cannot be opened for writing      *)
(* (rc), or its write fails after the truncation (rcw).  The transitions   *)
(* of the switcher, smart_install and install run under failures; the      *)
(* other operations of this specification run without one.                 *)
Faults == {"none", "save1", "save2", "save1w", "save2w", "bin", "rc", "rcw"}

(* The longest run of operations explored from a loaded configuration.     *)
MaxOps == 2

----------------------------------------------------------------------------
(* Option, HashMap and string helpers.                                     *)

None == <<>>

Some(x) == <<x>>

EmptyMap == [k \in {} |-> 0]

Put(m, k, v) == [x \in (DOMAIN m) \cup {k} |-> IF x = k THEN v ELSE m[x]]

Del(m, k) == [x \in (DOMAIN m) \ {k} |-> m[x]]

StartsWith(s, pre) == Len(s) >= Len(pre) /\ SubSeq(s, 1, Len(pre)) = pre

EndsWith(s, suf) == Len(s) >= Len(suf) /\ SubSeq(s, Len(s) - Len(suf) + 1, Len(s)) = suf

(* str::contains: substring test.                                          *)
Contains(s, pat) ==
    \E i \in 1..(Len(s) - Len(pat) + 1) : SubSeq(s, i, i + Len(pat) - 1) = pat

(* str::find: 1-based index of the first occurrence, 0 when absent.        *)
Find(s, pat) ==
    IF Contains(s, pat)
    THEN CHOOSE i \in 1..(Len(s) - Len(pat) + 1) :
            /\ SubSeq(s, i, i + Len(pat) - 1) = pat
            /\ \A j \in 1..(i - 1) : SubSeq(s, j, j + Len(pat) - 1) # pat
    ELSE 0

RECURSIVE Split(_, _)
(* str::split on a one-character separator.                                *)
Split(s, sep) ==
    LET i == Find(s, sep)
    IN  IF i = 0 THEN <<s>>
        ELSE <<SubSeq(s, 1, i - 1)>> \o Split(SubSeq(s, i + 1, Len(s)), sep)

RECURSIVE Join(_, _)
(* [String]::join.                                                         *)
Join(parts, sep) ==
    IF parts = <<>> THEN ""
    ELSE IF Len(parts) = 1 THEN parts[1]
    ELSE parts[1] \o sep \o Join(Tail(parts), sep)

RECURSIVE Retain_Substring(_, _)
(* Mutation of Retain: entries that contain x are dropped as well.         *)
Retain_Substring(parts, x) ==
    IF parts = <<>> THEN <<>>
    ELSE IF Contains(Head(parts), x) THEN Retain_Substring(Tail(parts), x)
    ELSE <<Head(parts)>> \o Retain_Substring(Tail(parts), x)

RECURSIVE Retain(_, _)
(* Vec::retain(|p| p != x).                                                *)
Retain(parts, x) ==
    IF parts = <<>> THEN <<>>
    ELSE IF Head(parts) = x THEN Retain(Tail(parts), x)
    ELSE <<Head(parts)>> \o Retain(Tail(parts), x)

----------------------------------------------------------------------------
(* models.rs                                                               *)

DefaultEnvironmentState ==
    [paths_prepend |-> <<>>, paths_append |-> <<>>, variables |-> EmptyMap,
     aliases |-> EmptyMap, active |-> TRUE]

NewProfile(name, parent) ==
    [name |-> name, parent |-> parent, packages |-> {},
     environment |-> DefaultEnvironmentState, os_overrides |-> EmptyMap]

(* The group lists (Config.groups) and the alias groups (Config.aliases)  *)
(* of Config::default().                                                   *)
DefaultGroups ==
    [global |-> <<"default">>, per_device |-> <<>>,
     enabled_global |-> <<"default">>, enabled_devices |-> <<>>,
     aliases |-> EmptyMap]

(* A chrono::DateTime<Utc>: the date and time of day to the second, as     *)
(* written, and the nanoseconds of the second.                             *)
Timestamp(date, nanos) == [date |-> date, nanos |-> nanos]

(* chrono::Utc::now() of the installs of a run; no operation reads the     *)
(* installed_at of a record.                                               *)
Now == Timestamp("2024-05-01T10:00:00", 123456789)

NewInstallationRecord(package, profile_id, scope) ==
    [package |-> package, version |-> None, installed_at |-> Now,
     installed_by |-> <<"Profile", profile_id>>,
     active_for |-> {profile_id}, scope |-> scope, location |-> None,
     installer_type |-> "auto"]

----------------------------------------------------------------------------
(* config.rs: the persisted snapshot.                                      *)

Snapshot(w) ==
    [installations |-> w.installations, profiles |-> w.profiles,
     active_profile |-> w.active_profile]

Fail(w) == [w EXCEPT !.err = TRUE]

(* The TOML document of a configuration, as the tree of values that       *)
(* toml::to_string_pretty writes and toml::from_str reads: a value is a    *)
(* string, a boolean, an array or a table.  serde writes a struct as a     *)
(* table of its fields and leaves out a field that is None; a missing      *)
(* Option field is read as None; a HashSet is written as an array in its   *)
(* iteration order; a unit variant of an enum is a string, a variant with  *)
(* a value a table with the variant name as its only key.                  *)
TomlString(s) == [type |-> "String", value |-> s]
TomlBoolean(b) == [type |-> "Boolean", value |-> b]
TomlArray(items) == [type |-> "Array", value |-> items]
TomlTable(entries) == [type |-> "Table", value |-> entries]

(* The members of a HashSet in the order this run iterates them: the      *)
(* order is unspecified, and `order` (an input of the run) lists every     *)
(* possible member once.                                                   *)
SetToSeq(set, order) == SelectSeq(order, LAMBDA x : x \in set)

(* A struct: `required` maps field names to values, `optional` maps field  *)
(* names to Option values.                                                 *)
ser_struct(required, optional) ==
    TomlTable([k \in DOMAIN required \cup {f \in DOMAIN optional : optional[f] # None} |->
                  IF k \in DOMAIN required THEN required[k] ELSE optional[k][1]])

ser_string_seq(seq) == TomlArray([i \in DOMAIN seq |-> TomlString(seq[i])])

ser_string_set(set, order) == ser_string_seq(SetToSeq(set, order))

ser_string_map(map) == TomlTable([k \in DOMAIN map |-> TomlString(map[k])])

(* Mutation of ser_option_string: None is written as an empty string.      *)
ser_option_string_Empty(option) ==
    IF option = None THEN Some(TomlString("")) ELSE Some(TomlString(option[1]))

ser_option_string(option) ==
    IF option = None THEN None ELSE Some(TomlString(option[1]))

RECURSIVE Digits(_, _)
(* A number as `width` decimal digits, zero-padded.                        *)
Digits(n, width) ==
    IF width = 0 THEN ""
    ELSE Digits(n \div 10, width - 1) \o SubSeq("0123456789", (n % 10) + 1, (n % 10) + 1)

RECURSIVE Number(_)
(* The number a string of decimal digits writes.                           *)
Number(digits) ==
    IF digits = "" THEN 0
    ELSE Number(SubSeq(digits, 1, Len(digits) - 1)) * 10
         + Find("0123456789", SubSeq(digits, Len(digits), Len(digits))) - 1

RECURSIVE Pow10(_)
Pow10(n) == IF n = 0 THEN 1 ELSE 10 * Pow10(n - 1)

(* The serde form of a DateTime<Utc>: an RFC 3339 string with the offset   *)
(* Z and the fraction of the second in no, three, six or nine digits,      *)
(* whichever is the shortest that loses nothing.                           *)
ser_datetime(t) ==
    LET fraction == IF t.nanos = 0 THEN ""
                    ELSE IF t.nanos % 1000000 = 0 THEN "." \o Digits(t.nanos \div 1000000, 3)
                    ELSE IF t.nanos % 1000 = 0 THEN "." \o Digits(t.nanos \div 1000, 6)
                    ELSE "." \o Digits(t.nanos, 9)
    IN  TomlString(t.date \o fraction \o "Z")

(* The DateTime<Utc> an RFC 3339 string with offset Z reads as.            *)
de_datetime(v) ==
    LET body == SubSeq(v.value, 1, Len(v.value) - 1)
        dot == Find(body, ".")
        fraction == IF dot = 0 THEN "" ELSE SubSeq(body, dot + 1, Len(body))
    IN  Timestamp(IF dot = 0 THEN body ELSE SubSeq(body, 1, dot - 1),
                  Number(fraction) * Pow10(9 - Len(fraction)))

ser_installation_source(source) ==
    IF Len(source) = 1 THEN TomlString(source[1])
    ELSE TomlTable([k \in {source[1]} |-> TomlString(source[2])])

ser_environment_state(e) ==
    ser_struct([k \in {"paths_prepend", "paths_append", "variables", "aliases", "active"} |->
                   CASE k = "paths_prepend" -> ser_string_seq(e.paths_prepend)
                     [] k = "paths_append" -> ser_string_seq(e.paths_append)
                     [] k = "variables" -> ser_string_map(e.variables)
                     [] k = "aliases" -> ser_string_map(e.aliases)
                     [] k = "active" -> TomlBoolean(e.active)],
               EmptyMap)

(* A ProfileOverride: its package list and, when it has one, its           *)
(* environment.                                                            *)
ser_profile_override(o) ==
    ser_struct([k \in {"packages"} |-> ser_string_seq(o.packages)],
               [k \in {"environment"} |->
                   IF o.environment = None THEN None
                   ELSE Some(ser_environment_state(o.environment[1]))])

(* HashMap<OsType, ProfileOverride>: a table whose keys are the names of   *)
(* the OsType variants.                                                    *)
ser_os_overrides(m) ==
    TomlTable([k \in {os[1] : os \in DOMAIN m} |-> ser_profile_override(m[<<k>>])])

ser_profile(p, order) ==
    ser_struct([k \in {"name", "packages", "environment", "os_overrides"} |->
                   CASE k = "name" -> TomlString(p.name)
                     [] k = "packages" -> ser_string_set(p.packages, order)
                     [] k = "environment" -> ser_environment_state(p.environment)
                     [] k = "os_overrides" -> ser_os_overrides(p.os_overrides)],
               [k \in {"parent"} |-> ser_option_string(p.parent)])

ser_installation_record(r, order) ==
    ser_struct([k \in {"package", "installed_at", "installed_by", "active_for", "scope",
                       "installer_type"} |->
                   CASE k = "package" -> TomlString(r.package)
                     [] k = "installed_at" -> ser_datetime(r.installed_at)
                     [] k = "installed_by" -> ser_installation_source(r.installed_by)
                     [] k = "active_for" -> ser_string_set(r.active_for, order)
                     [] k = "scope" -> TomlString(r.scope)
                     [] k = "installer_type" -> TomlString(r.installer_type)],
               [k \in {"version", "location"} |->
                   IF k = "version" THEN ser_option_string(r.version)
                   ELSE ser_option_string(r.location)])

(* toml::to_string_pretty(&config), for the three fields of the snapshot.  *)
(* Every HashSet of the configuration iterates in an order of its own:     *)
(* orders.packages[f] is the order of the package set of profile f,        *)
(* orders.active_for[p] the order of the active_for set of package p.      *)
to_string_pretty(config, orders) ==
    ser_struct([k \in {"profiles", "installations"} |->
                   IF k = "profiles"
                   THEN TomlTable([f \in DOMAIN config.profiles |->
                                      ser_profile(config.profiles[f], orders.packages[f])])
                   ELSE TomlTable([p \in DOMAIN config.installations |->
                                      ser_installation_record(config.installations[p],
                                                              orders.active_for[p])])],
               [k \in {"active_profile"} |-> ser_option_string(config.active_profile)])

de_option_string(table, field) ==
    IF field \in DOMAIN table.value THEN Some(table.value[field].value) ELSE None

de_string_seq(array) == [i \in DOMAIN array.value |-> array.value[i].value]

de_string_set(array) == {array.value[i].value : i \in DOMAIN array.value}

de_string_map(table) == [k \in DOMAIN table.value |-> table.value[k].value]

de_installation_source(v) ==
    IF v.type = "String" THEN <<v.value>>
    ELSE LET variant == CHOOSE k \in DOMAIN v.value : TRUE
         IN  <<variant, v.value[variant].value>>

de_environment_state(t) ==
    [paths_prepend |-> de_string_seq(t.value["paths_prepend"]),
     paths_append |-> de_string_seq(t.value["paths_append"]),
     variables |-> de_string_map(t.value["variables"]),
     aliases |-> de_string_map(t.value["aliases"]),
     active |-> t.value["active"].value]

de_profile_override(t) ==
    [packages |-> de_string_seq(t.value["packages"]),
     environment |-> IF "environment" \in DOMAIN t.value
                     THEN Some(de_environment_state(t.value["environment"])) ELSE None]

de_os_overrides(t) ==
    [os \in {<<k>> : k \in DOMAIN t.value} |-> de_profile_override(t.value[os[1]])]

de_profile(t) ==
    [name |-> t.value["name"].value, parent |-> de_option_string(t, "parent"),
     packages |-> de_string_set(t.value["packages"]),
     environment |-> de_environment_state(t.value["environment"]),
     os_overrides |-> de_os_overrides(t.value["os_overrides"])]

de_installation_record(t) ==
    [package |-> t.value["package"].value, version |-> de_option_string(t, "version"),
     installed_at |-> de_datetime(t.value["installed_at"]),
     installed_by |-> de_installation_source(t.value["installed_by"]),
     active_for |-> de_string_set(t.value["active_for"]),
     scope |-> t.value["scope"].value, location |-> de_option_string(t, "location"),
     installer_type |-> t.value["installer_type"].value]

(* toml::from_str::<Config>(&contents); profiles and installations are     *)
(* #[serde(default)].                                                      *)
from_str(doc) ==
    [installations |->
        IF "installations" \in DOMAIN doc.value
        THEN [p \in DOMAIN doc.value["installations"].value |->
                 de_installation_record(doc.value["installations"].value[p])]
        ELSE EmptyMap,
     profiles |->
        IF "profiles" \in DOMAIN doc.value
        THEN [f \in DOMAIN doc.value["profiles"].value |->
                 de_profile(doc.value["profiles"].value[f])]
        ELSE EmptyMap,
     active_profile |-> de_option_string(doc, "active_profile")]

(* Mutation of save_state: the snapshot is merged into the file, keeping   *)
(* the records and profiles of the file that the snapshot does not have.   *)
save_state_Merge(w) ==
    [w EXCEPT !.nsaves = w.nsaves + 1,
              !.disk = [installations |->
                            [k \in DOMAIN w.disk.installations \cup DOMAIN w.installations |->
                                IF k \in DOMAIN w.installations THEN w.installations[k]
                                ELSE w.disk.installations[k]],
                        profiles |->
                            [k \in DOMAIN w.disk.profiles \cup DOMAIN w.profiles |->
                                IF k \in DOMAIN w.profiles THEN w.profiles[k]
                                ELSE w.disk.profiles[k]],
                        active_profile |-> w.active_profile]]

(* The configuration an empty file reads back as: every field of Config is *)
(* #[serde(default)].                                                      *)
EmptyFile == from_str(TomlTable(EmptyMap))

GroupFields == {"global", "per_device", "enabled_global", "enabled_devices"}

(* An AliasGroup as a table of its two lists, and back.                    *)
ser_alias_group(a) ==
    ser_struct([k \in {"items", "active"} |-> ser_string_seq(a[k])], EmptyMap)

de_alias_group(table) ==
    [items |-> de_string_seq(table.value["items"]),
     active |-> de_string_seq(table.value["active"])]

(* The group lists as a TOML table of string arrays and the alias groups   *)
(* as a table of tables, and back.                                         *)
ser_groups(g) ==
    ser_struct([k \in GroupFields \cup {"aliases"} |->
                   IF k = "aliases"
                   THEN TomlTable([n \in DOMAIN g.aliases |-> ser_alias_group(g.aliases[n])])
                   ELSE ser_string_seq(g[k])],
               EmptyMap)

de_groups(table) ==
    [k \in GroupFields \cup {"aliases"} |->
        IF k = "aliases"
        THEN [n \in DOMAIN table.value[k].value |-> de_alias_group(table.value[k].value[n])]
        ELSE de_string_seq(table.value[k])]

(* The groups an empty file reads back as: Groups derives Default, so      *)
(* every list is empty, and so is the map of alias groups.                 *)
EmptyGroups == [k \in GroupFields \cup {"aliases"} |-> IF k = "aliases" THEN EmptyMap ELSE <<>>]

(* fs::write of the configuration with the given snapshot and the         *)
(* manager's groups: the file is opened with truncation and then written.  *)
(* A failure at the open (faults save1, save2: the first, the second save  *)
(* of the call) leaves the file as it was; a failure at the write (save1w, *)
(* save2w) leaves it empty.  `disk` and `groups_file` are what the file    *)
(* reads back as.  ConfigManager::save calls toml::to_string_pretty before *)
(* it opens the file: a build whose toml crate does not write an enum as   *)
(* the key of a table fails there on a profile with os_overrides, which    *)
(* leaves the file as a failing open does.                                 *)
write_config(w, snapshot) ==
    LET n == w.nsaves + 1
        failed_open == \/ (n = 1 /\ w.fault = "save1")
                       \/ (n = 2 /\ w.fault = "save2")
        failed_write == \/ (n = 1 /\ w.fault = "save1w")
                        \/ (n = 2 /\ w.fault = "save2w")
    IN  IF failed_open THEN [w EXCEPT !.nsaves = n, !.err = TRUE]
        ELSE IF failed_write
        THEN [w EXCEPT !.nsaves = n, !.err = TRUE,
                       !.disk = EmptyFile, !.groups_file = EmptyGroups]
        ELSE [w EXCEPT !.nsaves = n,
                       !.disk = from_str(to_string_pretty(snapshot, w.set_order)),
                       !.groups_file = de_groups(ser_groups(w.groups))]

(* ConfigManager::save: the manager writes the configuration it holds in  *)
(* memory, which is the one it loaded with the changes made since; what    *)
(* the file holds at the time of the save is not read.                     *)
save(w) == write_config(w, Snapshot(w))

(* InstallationStateManager::save_state: copy the three fields into the    *)
(* configuration of the manager and save it.                               *)
save_state(w) == save(w)

(* ConfigManager::new and InstallationStateManager::new over the           *)
(* configuration file: the memory of the manager is what the file reads    *)
(* as.                                                                     *)
Load(w) ==
    [w EXCEPT !.installations = w.disk.installations,
              !.profiles = w.disk.profiles,
              !.active_profile = w.disk.active_profile,
              !.groups = w.groups_file]

----------------------------------------------------------------------------
(* config.rs: the group lists of the configuration.                        *)

(* Vec::contains                                                           *)
vec_contains(vec, x) == \E i \in DOMAIN vec : vec[i] = x

add_global_group(w, name) ==
    IF ~vec_contains(w.groups.global, name)
    THEN save([w EXCEPT !.groups.global = Append(@, name)])
    ELSE w

(* Mutation of remove_global_group: the name stays in enabled_global.      *)
remove_global_group_KeepEnabled(w, name) ==
    IF name = "default" THEN Fail(w)
    ELSE save([w EXCEPT !.groups.global = Retain(@, name)])

remove_global_group(w, name) ==
    IF name = "default" THEN Fail(w)
    ELSE save([w EXCEPT !.groups.global = Retain(@, name),
                        !.groups.enabled_global = Retain(@, name)])

enable_global_group(w, name) ==
    IF vec_contains(w.groups.global, name)
    THEN IF ~vec_contains(w.groups.enabled_global, name)
         THEN save([w EXCEPT !.groups.enabled_global = Append(@, name)])
         ELSE w
    ELSE Fail(w)

disable_global_group(w, name) ==
    save([w EXCEPT !.groups.enabled_global = Retain(@, name)])

RECURSIVE push_new(_, _)
(* The loops of get_ordered_groups: push each name not yet in the list.    *)
push_new(ordered, names) ==
    IF names = <<>> THEN ordered
    ELSE push_new(IF vec_contains(ordered, Head(names)) THEN ordered
                  ELSE Append(ordered, Head(names)),
                  Tail(names))

get_ordered_groups(g) ==
    push_new(push_new(<<"default">>, g.enabled_global), g.enabled_devices)

(* ConfigManager::update_install_status: the status map is not part of the *)
(* state; the save is.                                                     *)
update_install_status(w) == save(w)

----------------------------------------------------------------------------
(* state_manager.rs                                                        *)

is_installed(w, package) == package \in DOMAIN w.installations

is_active(w, package) ==
    /\ package \in DOMAIN w.installations
    /\ w.active_profile # None
    /\ w.active_profile[1] \in w.installations[package].active_for

(* Mutation of activate_for_profile: the active profile replaces the       *)
(* members of active_for instead of joining them.                          *)
activate_for_profile_Overwrite(w, package) ==
    IF w.active_profile = None THEN w
    ELSE LET profile_id == w.active_profile[1]
             inst == IF package \in DOMAIN w.installations
                     THEN [w.installations EXCEPT ![package].active_for = {profile_id}]
                     ELSE w.installations
             prof == IF profile_id \in DOMAIN w.profiles
                     THEN [w.profiles EXCEPT ![profile_id].packages = @ \cup {package}]
                     ELSE w.profiles
         IN  save_state([w EXCEPT !.installations = inst, !.profiles = prof])

activate_for_profile(w, package) ==
    IF w.active_profile = None THEN w
    ELSE LET profile_id == w.active_profile[1]
             inst == IF package \in DOMAIN w.installations
                     THEN [w.installations EXCEPT ![package].active_for = @ \cup {profile_id}]
                     ELSE w.installations
             prof == IF profile_id \in DOMAIN w.profiles
                     THEN [w.profiles EXCEPT ![profile_id].packages = @ \cup {package}]
                     ELSE w.profiles
         IN  save_state([w EXCEPT !.installations = inst, !.profiles = prof])

(* Mutation of deactivate_for_profile: a record whose active_for becomes   *)
(* empty is dropped from the ledger.                                       *)
deactivate_for_profile_Purge(w, package) ==
    IF w.active_profile = None THEN w
    ELSE LET profile_id == w.active_profile[1]
             inst == IF package \in DOMAIN w.installations
                     THEN IF w.installations[package].active_for \ {profile_id} = {}
                          THEN Del(w.installations, package)
                          ELSE [w.installations EXCEPT ![package].active_for = @ \ {profile_id}]
                     ELSE w.installations
             prof == IF profile_id \in DOMAIN w.profiles
                     THEN [w.profiles EXCEPT ![profile_id].packages = @ \ {package}]
                     ELSE w.profiles
         IN  save_state([w EXCEPT !.installations = inst, !.profiles = prof])

deactivate_for_profile(w, package) ==
    IF w.active_profile = None THEN w
    ELSE LET profile_id == w.active_profile[1]
             inst == IF package \in DOMAIN w.installations
                     THEN [w.installations EXCEPT ![package].active_for = @ \ {profile_id}]
                     ELSE w.installations
             prof == IF profile_id \in DOMAIN w.profiles
                     THEN [w.profiles EXCEPT ![profile_id].packages = @ \ {package}]
                     ELSE w.profiles
         IN  save_state([w EXCEPT !.installations = inst, !.profiles = prof])

(* Mutation of perform_installation: the record is inserted but the        *)
(* package is not added to the profile's package set.                      *)
perform_installation_LedgerOnly(w, package, scope) ==
    LET profile_id == IF w.active_profile = None THEN "default" ELSE w.active_profile[1]
        inst == Put(w.installations, package, NewInstallationRecord(package, profile_id, scope))
    IN  save_state([w EXCEPT !.installations = inst])

perform_installation(w, package, scope) ==
    LET profile_id == IF w.active_profile = None THEN "default" ELSE w.active_profile[1]
        inst == Put(w.installations, package, NewInstallationRecord(package, profile_id, scope))
        prof == IF profile_id \in DOMAIN w.profiles
                THEN [w.profiles EXCEPT ![profile_id].packages = @ \cup {package}]
                ELSE w.profiles
    IN  save_state([w EXCEPT !.installations = inst, !.profiles = prof])

(* Mutation of perform_uninstallation: the record is emptied, not removed. *)
perform_uninstallation_ClearOnly(w, package) ==
    save_state([w EXCEPT !.installations =
        IF package \in DOMAIN w.installations
        THEN [w.installations EXCEPT ![package].active_for = {}]
        ELSE w.installations])

perform_uninstallation(w, package) ==
    save_state([w EXCEPT !.installations = Del(w.installations, package)])

(* Mutation of remove_from_profile_list: without an active profile the     *)
(* package is taken out of every profile.                                  *)
remove_from_profile_list_Everywhere(w, package) ==
    LET prof == IF w.active_profile # None /\ w.active_profile[1] \in DOMAIN w.profiles
                THEN [w.profiles EXCEPT ![w.active_profile[1]].packages = @ \ {package}]
                ELSE IF w.active_profile = None
                THEN [f \in DOMAIN w.profiles |->
                        [w.profiles[f] EXCEPT !.packages = @ \ {package}]]
                ELSE w.profiles
    IN  save_state([w EXCEPT !.profiles = prof])

remove_from_profile_list(w, package) ==
    LET prof == IF w.active_profile # None /\ w.active_profile[1] \in DOMAIN w.profiles
                THEN [w.profiles EXCEPT ![w.active_profile[1]].packages = @ \ {package}]
                ELSE w.profiles
    IN  save_state([w EXCEPT !.profiles = prof])

(* Mutation of used_by_other_profiles: other members are never seen.       *)
used_by_other_profiles_Never(w, package) == FALSE

used_by_other_profiles(w, package) ==
    /\ package \in DOMAIN w.installations
    /\ w.active_profile # None
    /\ \E p \in w.installations[package].active_for : p # w.active_profile[1]

(* Mutation of get_usage_count: the current profile is not counted.        *)
get_usage_count_Others(w, package) ==
    IF package \in DOMAIN w.installations
    THEN Cardinality(w.installations[package].active_for) - 1
    ELSE 0

get_usage_count(w, package) ==
    IF package \in DOMAIN w.installations
    THEN Cardinality(w.installations[package].active_for)
    ELSE 0

(* Mutation of remove_from_all_profiles: only the active profile's package *)
(* set is updated.                                                         *)
remove_from_all_profiles_ActiveOnly(w, package) ==
    save_state([w EXCEPT !.profiles =
        [f \in DOMAIN w.profiles |->
            IF w.active_profile = Some(f)
            THEN [w.profiles[f] EXCEPT !.packages = @ \ {package}]
            ELSE w.profiles[f]]])

remove_from_all_profiles(w, package) ==
    save_state([w EXCEPT !.profiles =
        [f \in DOMAIN w.profiles |-> [w.profiles[f] EXCEPT !.packages = @ \ {package}]]])

(* Mutation of mark_for_gc: the mark is recorded in the ledger record.     *)
mark_for_gc_Recorded(w, package) ==
    IF package \in DOMAIN w.installations
    THEN [w EXCEPT !.installations[package].installer_type = "unused"]
    ELSE w

mark_for_gc(w, package) == w

smart_install(w, package, scope) ==
    IF is_installed(w, package)
    THEN activate_for_profile(w, package)
    ELSE perform_installation(w, package, scope)

(* RemoveFromProfile after `remove_from_profile_list(package)?`: an error  *)
(* of that call is returned as it is.                                      *)
deactivate_unless_used(w, package) ==
    IF w.err THEN w
    ELSE IF ~used_by_other_profiles(w, package)
    THEN deactivate_for_profile(w, package)
    ELSE w

(* ForceRemove after `perform_uninstallation(package)?`.                   *)
then_remove_from_all_profiles(w, package) ==
    IF w.err THEN w ELSE remove_from_all_profiles(w, package)

handle_removal(w, package, strategy) ==
    CASE strategy = "Deactivate" -> deactivate_for_profile(w, package)
      [] strategy = "RemoveFromProfile" ->
            deactivate_unless_used(remove_from_profile_list(w, package), package)
      [] strategy = "SmartRemove" ->
            IF get_usage_count(w, package) <= 1
            THEN perform_uninstallation(w, package)
            ELSE deactivate_for_profile(w, package)
      [] strategy = "ForceRemove" ->
            then_remove_from_all_profiles(perform_uninstallation(w, package), package)
      [] strategy = "MarkUnused" ->
            deactivate_for_profile(mark_for_gc(w, package), package)

(* Mutation of create_profile: a parent that is not registered is an       *)
(* error.                                                                  *)
create_profile_RequireParent(w, name, parent) ==
    IF parent # None /\ parent[1] \notin DOMAIN w.profiles THEN Fail(w)
    ELSE save_state([w EXCEPT !.profiles = Put(w.profiles, name, NewProfile(name, parent))])

(* Mutation of create_profile: a registered name keeps its profile         *)
(* (entry().or_insert instead of insert).                                  *)
create_profile_KeepExisting(w, name, parent) ==
    IF name \in DOMAIN w.profiles THEN save_state(w)
    ELSE save_state([w EXCEPT !.profiles = Put(w.profiles, name, NewProfile(name, parent))])

create_profile(w, name, parent) ==
    save_state([w EXCEPT !.profiles = Put(w.profiles, name, NewProfile(name, parent))])

(* Mutation of switch_profile: the name is not looked up in the registry.  *)
switch_profile_Unchecked(w, name) ==
    save_state([w EXCEPT !.active_profile = Some(name)])

(* Mutation of switch_profile: the pointer is assigned before the name is  *)
(* looked up.                                                              *)
switch_profile_AssignFirst(w, name) ==
    IF name \notin DOMAIN w.profiles THEN Fail([w EXCEPT !.active_profile = Some(name)])
    ELSE save_state([w EXCEPT !.active_profile = Some(name)])

switch_profile(w, name) ==
    IF name \notin DOMAIN w.profiles THEN Fail(w)
    ELSE save_state([w EXCEPT !.active_profile = Some(name)])

get_active_packages(w, profile) ==
    IF profile \in DOMAIN w.profiles THEN w.profiles[profile].packages ELSE {}

get_package_info(w, package) ==
    IF package \in DOMAIN w.installations THEN Some(w.installations[package]) ELSE None

----------------------------------------------------------------------------
(* environment.rs                                                          *)

HasVar(e, k) == k \in DOMAIN e

(* env::var(k).unwrap_or_default()                                         *)
VarOrDefault(e, k) == IF k \in DOMAIN e THEN e[k] ELSE ""

(* EnvironmentManager::expand_path: None is the "HOME not set" error.      *)
expand_path(e, path) ==
    IF StartsWith(path, "~/")
    THEN IF HasVar(e, "HOME") THEN Some(e["HOME"] \o SubSeq(path, 2, Len(path))) ELSE None
    ELSE IF StartsWith(path, "$HOME")
    THEN IF HasVar(e, "HOME") THEN Some(e["HOME"] \o SubSeq(path, 6, Len(path))) ELSE None
    ELSE Some(path)

RECURSIVE prepend_paths(_, _, _)
(* The prepend loop of apply_path_changes; None when an expansion fails.   *)
prepend_paths(e, current_path, paths) ==
    IF paths = <<>> THEN Some(current_path)
    ELSE LET expanded == expand_path(e, Head(paths))
         IN  IF expanded = None THEN None
             ELSE prepend_paths(e,
                    IF Contains(current_path, expanded[1]) THEN current_path
                    ELSE expanded[1] \o ":" \o current_path,
                    Tail(paths))

RECURSIVE append_paths(_, _, _)
(* The append loop of apply_path_changes.                                  *)
append_paths(e, current_path, paths) ==
    IF paths = <<>> THEN Some(current_path)
    ELSE LET expanded == expand_path(e, Head(paths))
         IN  IF expanded = None THEN None
             ELSE append_paths(e,
                    IF Contains(current_path, expanded[1]) THEN current_path
                    ELSE current_path \o ":" \o expanded[1],
                    Tail(paths))

(* apply_path_changes after the prepend loop: the append loop, unless an   *)
(* expansion already failed.                                               *)
append_after(e, prepended, paths) ==
    IF prepended = None THEN None ELSE append_paths(e, prepended[1], paths)

(* env::set_var("PATH", ..) with the computed value, or the error of the   *)
(* expansion that failed.                                                  *)
set_path(w, path) ==
    IF path = None THEN Fail(w) ELSE [w EXCEPT !.env = Put(w.env, "PATH", path[1])]

apply_path_changes(w, env_state) ==
    set_path(w, append_after(w.env,
                    prepend_paths(w.env, VarOrDefault(w.env, "PATH"), env_state.paths_prepend),
                    env_state.paths_append))

RECURSIVE retain_paths(_, _, _)
(* The two retain loops of remove_path_changes; None when an expansion     *)
(* fails.                                                                  *)
retain_paths(e, paths, remove) ==
    IF remove = <<>> THEN Some(paths)
    ELSE LET expanded == expand_path(e, Head(remove))
         IN  IF expanded = None THEN None
             ELSE retain_paths(e, Retain(paths, expanded[1]), Tail(remove))

(* paths.join(":") of the retained entries.                                *)
joined(paths) == IF paths = None THEN None ELSE Some(Join(paths[1], ":"))

(* Mutation of remove_path_changes: the append loop is left out.           *)
remove_path_changes_PrependOnly(w, env_state) ==
    set_path(w, joined(retain_paths(w.env, Split(VarOrDefault(w.env, "PATH"), ":"),
                                    env_state.paths_prepend)))

remove_path_changes(w, env_state) ==
    set_path(w, joined(retain_paths(w.env, Split(VarOrDefault(w.env, "PATH"), ":"),
                                    env_state.paths_prepend \o env_state.paths_append)))

(* The keys of a HashMap in the order this run iterates them: `order`      *)
(* lists every possible key once.  The generators take a record of two     *)
(* such orders, one for the variable map and one for the alias map.        *)
iter_keys(map, order) == SelectSeq(order, LAMBDA k : k \in DOMAIN map)

(* env::set_var and env::remove_var panic on a name that is empty or holds *)
(* "=" (a NUL is not a character of the model's strings).                  *)
valid_name(key) == key # "" /\ ~Contains(key, "=")

(* A panic: the call returns neither Ok nor Err; what the process changed   *)
(* before it stays changed.                                                *)
Panic(w) == [w EXCEPT !.err = TRUE, !.panic = TRUE]

(* The keys of the variable map in the order this run iterates them.       *)
variable_keys(w, env_state) == iter_keys(env_state.variables, w.hash_order)

RECURSIVE set_each(_, _, _)
set_each(w, keys, variables) ==
    IF keys = <<>> THEN w
    ELSE IF ~valid_name(Head(keys)) THEN Panic(w)
    ELSE set_each([w EXCEPT !.env = Put(w.env, Head(keys), variables[Head(keys)])],
                  Tail(keys), variables)

RECURSIVE remove_each(_, _)
remove_each(w, keys) ==
    IF keys = <<>> THEN w
    ELSE IF ~valid_name(Head(keys)) THEN Panic(w)
    ELSE remove_each([w EXCEPT !.env = Del(w.env, Head(keys))], Tail(keys))

(* The env::set_var loop of apply_profile_environment, after              *)
(* `apply_path_changes(env_state)?`.                                       *)
set_variables(w, env_state) ==
    IF w.err THEN w ELSE set_each(w, variable_keys(w, env_state), env_state.variables)

(* The env::remove_var loop of clear_profile_environment, after           *)
(* `remove_path_changes(env_state)?`.                                      *)
remove_variables(w, env_state) ==
    IF w.err THEN w ELSE remove_each(w, variable_keys(w, env_state))

(* Mutation of apply_profile_environment: the active flag is not read.     *)
apply_profile_environment_Ungated(w, env_state) ==
    set_variables(apply_path_changes(w, env_state), env_state)

apply_profile_environment(w, env_state) ==
    IF ~env_state.active THEN w
    ELSE set_variables(apply_path_changes(w, env_state), env_state)

clear_profile_environment(w, env_state) ==
    remove_variables(remove_path_changes(w, env_state), env_state)

RECURSIVE Concat(_)
(* String::push_str of every piece in turn.                                *)
Concat(pieces) ==
    IF pieces = <<>> THEN "" ELSE Head(pieces) \o Concat(Tail(pieces))

(* PathBuf::join as the string of the path: an absolute component replaces *)
(* the base, and a separator is put between base and component unless the  *)
(* base is empty or ends with one (joining "" leaves a trailing separator). *)
path_join(base, component) ==
    IF StartsWith(component, "/") THEN component
    ELSE IF base = "" THEN component
    ELSE IF EndsWith(base, "/") THEN base \o component
    ELSE base \o "/" \o component

any_path(env_state) == env_state.paths_prepend # <<>> \/ env_state.paths_append # <<>>

(* Mutation of blank_if: the blank line is pushed unconditionally.         *)
blank_if_Always(cond) == "\n"

blank_if(cond) == IF cond THEN "\n" ELSE ""

generate_bash_config(env_state, order) ==
    LET pre == env_state.paths_prepend
        app == env_state.paths_append
        vs == iter_keys(env_state.variables, order.variables)
        as == iter_keys(env_state.aliases, order.aliases)
    IN  "# zshrcman profile environment\n\n"
        \o Concat([i \in DOMAIN pre |-> "export PATH=\"" \o pre[i] \o ":$PATH\"\n"])
        \o Concat([i \in DOMAIN app |-> "export PATH=\"$PATH:" \o app[i] \o "\"\n"])
        \o blank_if(any_path(env_state))
        \o Concat([i \in DOMAIN vs |->
                    "export " \o vs[i] \o "=\"" \o env_state.variables[vs[i]] \o "\"\n"])
        \o blank_if(vs # <<>>)
        \o Concat([i \in DOMAIN as |->
                    "alias " \o as[i] \o "='" \o env_state.aliases[as[i]] \o "'\n"])

generate_fish_config(env_state, order) ==
    LET pre == env_state.paths_prepend
        app == env_state.paths_append
        vs == iter_keys(env_state.variables, order.variables)
        as == iter_keys(env_state.aliases, order.aliases)
    IN  "# zshrcman profile environment\n\n"
        \o Concat([i \in DOMAIN pre |-> "set -gx PATH " \o pre[i] \o " $PATH\n"])
        \o Concat([i \in DOMAIN app |-> "set -gx PATH $PATH " \o app[i] \o "\n"])
        \o blank_if(any_path(env_state))
        \o Concat([i \in DOMAIN vs |->
                    "set -gx " \o vs[i] \o " \"" \o env_state.variables[vs[i]] \o "\"\n"])
        \o blank_if(vs # <<>>)
        \o Concat([i \in DOMAIN as |->
                    "alias " \o as[i] \o " '" \o env_state.aliases[as[i]] \o "'\n"])

powershell_paths(env_state) ==
    LET pre == env_state.paths_prepend
        app == env_state.paths_append
    IN  IF ~any_path(env_state) THEN ""
        ELSE "$env:Path = @("
             \o Concat([i \in DOMAIN pre |-> "\n    \"" \o pre[i] \o "\","])
             \o "\n    $env:Path"
             \o Concat([i \in DOMAIN app |-> ",\n    \"" \o app[i] \o "\""])
             \o "\n) -join ';'\n\n"

generate_powershell_config(env_state, order) ==
    LET vs == iter_keys(env_state.variables, order.variables)
        as == iter_keys(env_state.aliases, order.aliases)
    IN  "# zshrcman profile environment\n\n"
        \o powershell_paths(env_state)
        \o Concat([i \in DOMAIN vs |->
                    "$env:" \o vs[i] \o " = \"" \o env_state.variables[vs[i]] \o "\"\n"])
        \o blank_if(vs # <<>>)
        \o Concat([i \in DOMAIN as |->
                    "function " \o as[i] \o " { " \o env_state.aliases[as[i]] \o " }\n"])

cmd_paths(env_state) ==
    LET pre == env_state.paths_prepend
        app == env_state.paths_append
    IN  IF ~any_path(env_state) THEN ""
        ELSE "set PATH="
             \o Concat([i \in DOMAIN pre |-> pre[i] \o ";"])
             \o "%PATH%"
             \o Concat([i \in DOMAIN app |-> ";" \o app[i]])
             \o "\n\n"

cmd_aliases(env_state, order) ==
    LET as == iter_keys(env_state.aliases, order.aliases)
    IN  IF as = <<>> THEN ""
        ELSE "REM Aliases not supported in CMD batch files\n"
             \o Concat([i \in DOMAIN as |->
                         "REM " \o as[i] \o " = " \o env_state.aliases[as[i]] \o "\n"])

generate_cmd_config(env_state, order) ==
    LET vs == iter_keys(env_state.variables, order.variables)
    IN  "@echo off\nREM zshrcman profile environment\n\n"
        \o cmd_paths(env_state)
        \o Concat([i \in DOMAIN vs |->
                    "set " \o vs[i] \o "=" \o env_state.variables[vs[i]] \o "\n"])
        \o blank_if(vs # <<>>)
        \o cmd_aliases(env_state, order)

generate_shell_config(shell, env_state, order) ==
    CASE shell \in {"Zsh", "Bash"} -> generate_bash_config(env_state, order)
      [] shell = "Fish" -> generate_fish_config(env_state, order)
      [] shell = "PowerShell" -> generate_powershell_config(env_state, order)
      [] shell = "Cmd" -> generate_cmd_config(env_state, order)

(* HOME, else USERPROFILE, else ".".                                       *)
home_or_dot(e) ==
    IF HasVar(e, "HOME") THEN e["HOME"]
    ELSE IF HasVar(e, "USERPROFILE") THEN e["USERPROFILE"]
    ELSE "."

get_profile_env_path(e) ==
    path_join(home_or_dot(e), ".local/share/zshrcman/env/profile.env")

source_line(shell, env_path) ==
    CASE shell \in {"Zsh", "Bash"} -> "[ -f " \o env_path \o " ] && source " \o env_path
      [] shell = "Fish" -> "test -f " \o env_path \o "; and source " \o env_path
      [] shell = "PowerShell" -> ". \"" \o env_path \o "\""

(* EnvironmentManager::detect_shell on a platform other than Windows, by   *)
(* the SHELL variable (unset reads as "").                                 *)
detect_shell(e) ==
    IF Contains(VarOrDefault(e, "SHELL"), "zsh") THEN "Zsh"
    ELSE IF Contains(VarOrDefault(e, "SHELL"), "bash") THEN "Bash"
    ELSE IF Contains(VarOrDefault(e, "SHELL"), "fish") THEN "Fish"
    ELSE "Bash"

(* EnvironmentManager::get_shell_config_path.  PowerShell and Cmd are the  *)
(* shell kinds of a Windows build, where the PowerShell profile is under   *)
(* Documents.                                                              *)
get_shell_config_path(shell, e) ==
    path_join(home_or_dot(e),
              CASE shell = "Zsh" -> ".zshrc"
                [] shell = "Bash" -> ".bashrc"
                [] shell = "Fish" -> ".config/fish/config.fish"
                [] shell = "PowerShell" ->
                        "Documents/PowerShell/Microsoft.PowerShell_profile.ps1"
                [] shell = "Cmd" -> "zshrcman_env.bat")

(* Path::parent as a string: the path up to its last separator.            *)
path_parent(path) ==
    LET cuts == {i \in 1..Len(path) : SubSeq(path, i, i) = "/"}
    IN  IF cuts = {} THEN ""
        ELSE SubSeq(path, 1, (CHOOSE i \in cuts : \A j \in cuts : j <= i) - 1)

(* `if path.exists() { fs::read_to_string(path)? } else { String::new() }` *)
(* on a startup file: `shellrc` maps the path of every startup file that   *)
(* exists to its content.                                                  *)
read_shell_config(w, path) == IF path \in DOMAIN w.shellrc THEN w.shellrc[path] ELSE ""

(* fs::write of a startup file.  The open fails when the directory of the  *)
(* file does not exist (nothing creates it) or under the fault rc, and the *)
(* file stays as it was, or absent; under the fault rcw the write fails    *)
(* after the open has created or truncated the file, which is left empty.  *)
fs_write(w, path, content) ==
    IF path_parent(path) \notin w.dirs THEN Fail(w)
    ELSE IF w.fault = "rc" THEN Fail(w)
    ELSE IF w.fault = "rcw" THEN Fail([w EXCEPT !.shellrc = Put(@, path, "")])
    ELSE [w EXCEPT !.shellrc = Put(@, path, content)]

(* The startup file with the source line pushed at its end.                *)
with_source_line(content, line) ==
    (IF ~EndsWith(content, "\n") /\ content # "" THEN content \o "\n" ELSE content)
        \o "\n# zshrcman environment\n" \o line \o "\n"

add_source_line(w, env_path) ==
    LET shell_config == get_shell_config_path(w.shell_type, w.env)
    IN  IF w.shell_type = "Cmd" THEN w
        ELSE IF /\ shell_config \in DOMAIN w.shellrc
                /\ Contains(w.shellrc[shell_config], source_line(w.shell_type, env_path))
        THEN w
        ELSE fs_write(w, shell_config,
                      with_source_line(read_shell_config(w, shell_config),
                                       source_line(w.shell_type, env_path)))

(* write_shell_config: the script is generated, the directory of           *)
(* profile.env is created, the file is written and the source line added.  *)
(* Under the fault env the directory cannot be created or the file cannot  *)
(* be opened, and profile.env stays as it was; under envw its write fails  *)
(* after the truncation, and it is left empty.  Either way the call        *)
(* returns the error before it reaches the startup file.                   *)
write_shell_config(w, env_state, order) ==
    IF w.fault = "env" THEN Fail(w)
    ELSE IF w.fault = "envw" THEN Fail([w EXCEPT !.envfile = Some("")])
    ELSE add_source_line(
            [w EXCEPT !.envfile = Some(generate_shell_config(w.shell_type, env_state, order))],
            get_profile_env_path(w.env))

----------------------------------------------------------------------------
(* profile_switcher.rs                                                     *)

(* ProfileSwitcher::get_profile_bin_dir; None is the "HOME not set" error. *)
get_profile_bin_dir(w, profile) ==
    IF HasVar(w.env, "HOME")
    THEN Some(path_join(path_join(path_join(w.env["HOME"], ".local/share/zshrcman/profiles"),
                                  profile),
                        "bin"))
    ELSE None

add_to_path(w, dir) ==
    IF ~Contains(VarOrDefault(w.env, "PATH"), dir)
    THEN [w EXCEPT !.env = Put(w.env, "PATH", dir \o ":" \o VarOrDefault(w.env, "PATH"))]
    ELSE w

remove_from_path(w, dir) ==
    [w EXCEPT !.env = Put(w.env, "PATH",
                          Join(Retain(Split(VarOrDefault(w.env, "PATH"), ":"), dir), ":"))]

(* activate_environment after `apply_profile_environment(..)?`.            *)
add_bin_dir(w, profile) ==
    IF w.err THEN w
    ELSE IF get_profile_bin_dir(w, profile) = None THEN Fail(w)
    ELSE add_to_path(w, get_profile_bin_dir(w, profile)[1])

(* deactivate_environment after `clear_profile_environment(..)?`.          *)
remove_bin_dir(w, profile) ==
    IF w.err THEN w
    ELSE IF get_profile_bin_dir(w, profile) = None THEN Fail(w)
    ELSE remove_from_path(w, get_profile_bin_dir(w, profile)[1])

activate_environment(w, profile) ==
    IF profile \notin DOMAIN w.profiles THEN w
    ELSE add_bin_dir(apply_profile_environment(w, w.profiles[profile].environment), profile)

deactivate_environment(w, profile) ==
    IF profile \notin DOMAIN w.profiles THEN w
    ELSE remove_bin_dir(clear_profile_environment(w, w.profiles[profile].environment), profile)

(* The entries of a bin directory (absent: none).                          *)
BinEntries(w, profile) == IF profile \in DOMAIN w.bins THEN w.bins[profile] ELSE EmptyMap

(* Mutation of ClearEntries: only the symlinks are removed.                 *)
ClearEntries_SymlinksOnly(dir) ==
    [n \in {x \in DOMAIN dir : dir[x].kind # "symlink"} |-> dir[n]]

(* What the clearing loop leaves of a directory: it removes the regular    *)
(* files and the symlinks.                                                 *)
ClearEntries(dir) ==
    [n \in {x \in DOMAIN dir : dir[x].kind \notin {"file", "symlink"}} |-> dir[n]]

(* `if let Some(record) = get_package_info(..)` and                        *)
(* `if let Some(location) = &record.location`.                             *)
has_location(w, package) ==
    /\ get_package_info(w, package) # None
    /\ get_package_info(w, package)[1].location # None

(* The packages of the profile that get a link: those with a ledger record *)
(* that carries a location.                                                *)
LinkedPackages(w, profile) ==
    {p \in get_active_packages(w, profile) : has_location(w, p)}

(* The packages of the profile in the order the linking loop visits them: *)
(* the iteration order of the package set.                                 *)
VisitOrder(w, profile) ==
    SelectSeq(w.iter, LAMBDA p : p \in get_active_packages(w, profile))

RECURSIVE link_packages(_, _, _)
(* The linking loop over a cleared directory: one symlink per located      *)
(* package, named after the package and pointing at its location.  The     *)
(* symlink call fails when the name is taken; the loop stops there and the *)
(* links made so far stay.                                                 *)
link_packages(w, dir, todo) ==
    IF todo = <<>> THEN [dir |-> dir, err |-> FALSE]
    ELSE IF ~has_location(w, Head(todo))
    THEN link_packages(w, dir, Tail(todo))
    ELSE IF Head(todo) \in DOMAIN dir THEN [dir |-> dir, err |-> TRUE]
    ELSE link_packages(w,
            Put(dir, Head(todo),
                [kind |-> "symlink", target |-> w.installations[Head(todo)].location[1]]),
            Tail(todo))

(* The bin directory and the result the linking loop leaves.               *)
set_links(w, profile, linked) ==
    [w EXCEPT !.bins = Put(w.bins, profile, linked.dir), !.err = linked.err]

update_active_binaries(w, profile) ==
    IF get_profile_bin_dir(w, profile) = None THEN Fail(w)
    ELSE IF w.fault = "bin" THEN Fail(w)
    ELSE set_links(w, profile,
            link_packages(w, ClearEntries(BinEntries(w, profile)), VisitOrder(w, profile)))

(* Mutation of clear_profile_binaries: the directory is left as it is.     *)
clear_profile_binaries_Skip(w, profile) ==
    IF get_profile_bin_dir(w, profile) = None THEN Fail(w) ELSE w

clear_profile_binaries(w, profile) ==
    IF get_profile_bin_dir(w, profile) = None THEN Fail(w)
    ELSE IF profile \in DOMAIN w.bins
         THEN [w EXCEPT !.bins = Put(w.bins, profile, ClearEntries(w.bins[profile]))]
         ELSE w

MarkerPrefix == "# ZSHRCMAN_PROFILE:"

(* content.replace_range(start..start + end + 1, "") when the marker line  *)
(* found at `start` has a newline.                                         *)
remove_marker_line(content, start) ==
    LET end == Find(SubSeq(content, start, Len(content)), "\n")
    IN  IF end = 0 THEN content
        ELSE SubSeq(content, 1, start - 1) \o SubSeq(content, start + end, Len(content))

remove_old_marker(content) ==
    IF Find(content, MarkerPrefix) = 0 THEN content
    ELSE remove_marker_line(content, Find(content, MarkerPrefix))

end_with_newline(content) ==
    IF ~EndsWith(content, "\n") /\ content # "" THEN content \o "\n" ELSE content

(* ProfileSwitcher::get_shell_config_path: the startup file of the shell   *)
(* that SHELL names ("/bin/bash" when unset); None is the "HOME not set"   *)
(* error.                                                                  *)
ProfileSwitcher_get_shell_config_path(e) ==
    LET shell == IF HasVar(e, "SHELL") THEN e["SHELL"] ELSE "/bin/bash"
    IN  IF ~HasVar(e, "HOME") THEN None
        ELSE Some(path_join(e["HOME"],
                            IF Contains(shell, "zsh") THEN ".zshrc"
                            ELSE IF Contains(shell, "bash") THEN ".bashrc"
                            ELSE IF Contains(shell, "fish") THEN ".config/fish/config.fish"
                            ELSE ".profile"))

(* Mutation of update_shell_config: the new marker line is put at the      *)
(* start of the file.                                                      *)
update_shell_config_Prepend(w, profile) ==
    LET shell_config == ProfileSwitcher_get_shell_config_path(w.env)
    IN  IF shell_config = None THEN Fail(w)
        ELSE fs_write(w, shell_config[1],
                      MarkerPrefix \o " " \o profile \o "\n"
                        \o remove_old_marker(read_shell_config(w, shell_config[1])))

update_shell_config(w, profile) ==
    LET shell_config == ProfileSwitcher_get_shell_config_path(w.env)
    IN  IF shell_config = None THEN Fail(w)
        ELSE fs_write(w, shell_config[1],
                      end_with_newline(remove_old_marker(read_shell_config(w, shell_config[1])))
                        \o MarkerPrefix \o " " \o profile \o "\n")

(* Records in the trace that a numbered step of a transition ran on        *)
(* `before` and how it ended.                                              *)
Step(k, before, after) ==
    [after EXCEPT !.trace = Append(before.trace, [step |-> k, ok |-> ~after.err])]

(* Mutation of step 1: the old profile's environment is left applied.      *)
step_deactivate_old_Skipped(w) == w

(* Step 1: deactivate the old profile's environment, if one is active.     *)
step_deactivate_old(w) ==
    IF w.active_profile # None
    THEN Step(1, w, deactivate_environment(w, w.active_profile[1]))
    ELSE w

(* Step 2: switch to the new profile in the state manager; not reached     *)
(* when step 1 returned an error (`?`).                                    *)
step_switch_state(w, new_profile) ==
    IF w.err THEN w ELSE Step(2, w, switch_profile(w, new_profile))

(* Step 3: activate the new profile's environment.                         *)
step_activate_environment(w, profile) ==
    IF w.err THEN w ELSE Step(3, w, activate_environment(w, profile))

(* Step 4: update the symlinks.                                            *)
step_update_binaries(w, profile) ==
    IF w.err THEN w ELSE Step(4, w, update_active_binaries(w, profile))

(* Step 5: update the shell configuration.                                 *)
step_update_shell_config(w, profile) ==
    IF w.err THEN w ELSE Step(5, w, update_shell_config(w, profile))

(* Mutation of step 5: an error of the relink step is dropped and the      *)
(* marker is rewritten anyway.                                             *)
step_update_shell_config_anyway(w, profile) ==
    IF w.err /\ w.trace[Len(w.trace)].step # 4 THEN w
    ELSE Step(5, w, update_shell_config([w EXCEPT !.err = FALSE], profile))

(* Mutation of switch_profile: the result of the relink step is ignored.   *)
ProfileSwitcher_switch_profile_IgnoreRelink(w, new_profile) ==
    step_update_shell_config_anyway(
        step_update_binaries(
            step_activate_environment(
                step_switch_state(step_deactivate_old(w), new_profile),
                new_profile),
            new_profile),
        new_profile)

(* A failed switch puts the pointer it was called with back, in memory and *)
(* in the snapshot.                                                        *)
restore_pointer(w, old_profile) ==
    IF w.err /\ \E i \in 1..Len(w.trace) : w.trace[i].step = 2 /\ w.trace[i].ok
    THEN [w EXCEPT !.active_profile = old_profile,
                   !.disk = [w.disk EXCEPT !.active_profile = old_profile]]
    ELSE w

(* Mutation of switch_profile: a failure after step 2 is compensated.      *)
ProfileSwitcher_switch_profile_Rollback(w, new_profile) ==
    restore_pointer(
        step_update_shell_config(
            step_update_binaries(
                step_activate_environment(
                    step_switch_state(step_deactivate_old(w), new_profile),
                    new_profile),
                new_profile),
            new_profile),
        w.active_profile)

ProfileSwitcher_switch_profile(w, new_profile) ==
    step_update_shell_config(
        step_update_binaries(
            step_activate_environment(
                step_switch_state(step_deactivate_old(w), new_profile),
                new_profile),
            new_profile),
        new_profile)

(* Mutation of activate_profile: the pointer is switched first.            *)
activate_profile_Switching(w, profile) ==
    step_update_shell_config(
        step_update_binaries(
            step_activate_environment(step_switch_state(w, profile), profile),
            profile),
        profile)

(* activate_profile runs on a world without error, so its first call is    *)
(* always made.                                                            *)
activate_profile(w, profile) ==
    step_update_shell_config(
        step_update_binaries(step_activate_environment(w, profile), profile),
        profile)

(* deactivate_current after `deactivate_environment(&profile)?`.           *)
then_clear_profile_binaries(w, profile) ==
    IF w.err THEN w ELSE clear_profile_binaries(w, profile)

(* deactivate_current after `clear_profile_binaries(&profile)?`.           *)
clear_pointer(w) == IF w.err THEN w ELSE [w EXCEPT !.active_profile = None]

deactivate_current(w) ==
    IF w.active_profile = None THEN w
    ELSE clear_pointer(
            then_clear_profile_binaries(
                deactivate_environment(w, w.active_profile[1]),
                w.active_profile[1]))

----------------------------------------------------------------------------
(* main.rs: handle_profile_command, ProfileCommands::Delete.  The handler  *)
(* runs on a state manager built from the configuration file, removes the  *)
(* profile, and saves through a second state manager built from the file.  *)

(* Mutation of delete_profile: the active profile is not protected.        *)
delete_profile_Unguarded(w, name) ==
    LET state_mgr == Load(w)
    IN  save_state([state_mgr EXCEPT !.profiles = Del(state_mgr.profiles, name)])

delete_profile(w, name) ==
    LET state_mgr == Load(w)
    IN  IF state_mgr.active_profile = Some(name) THEN Fail(state_mgr)
        ELSE save_state([state_mgr EXCEPT !.profiles = Del(state_mgr.profiles, name)])

----------------------------------------------------------------------------
(* The configurations a run starts from.  A configuration file is user     *)
(* data: besides the empty default it may already list a package that was  *)
(* installed by hand (the only records that carry a location) and a        *)
(* profile with a hand-written environment.                                *)

GitRecord ==
    [package |-> "git", version |-> None,
     installed_at |-> Timestamp("2023-11-30T08:15:00", 0), installed_by |-> <<"Manual">>,
     active_for |-> {}, scope |-> "System", location |-> Some("/usr/bin/git"),
     installer_type |-> "manual"]

WorkEnvironment ==
    [paths_prepend |-> <<"~/w">>, paths_append |-> <<"/opt/w">>,
     variables |-> [k \in {"EDITOR"} |-> "vi"],
     aliases |-> EmptyMap, active |-> TRUE]

DefaultConfig ==
    [installations |-> EmptyMap, profiles |-> EmptyMap, active_profile |-> None]

NodejsRecord ==
    [NewInstallationRecord("nodejs", "work", "Global") EXCEPT !.active_for = {"work", "personal"}]

(* A configuration written by earlier runs: two profiles sharing nodejs,   *)
(* git linked into work only, no profile active.                           *)
SeededConfig ==
    [installations |-> [k \in {"git", "nodejs"} |->
                            IF k = "git" THEN [GitRecord EXCEPT !.active_for = {"work"}]
                            ELSE NodejsRecord],
     profiles |-> [k \in {"work", "personal"} |->
                      IF k = "work"
                      THEN [NewProfile("work", None) EXCEPT !.environment = WorkEnvironment,
                                                            !.packages = {"git", "nodejs"}]
                      ELSE [NewProfile("personal", Some("work")) EXCEPT !.packages = {"nodejs"}]],
     active_profile |-> None]

(* A configuration with one hand-written profile and one hand-installed    *)
(* package that no profile uses yet.                                       *)
ManualConfig ==
    [installations |-> [k \in {"git"} |-> GitRecord],
     profiles |-> [k \in {"work"} |->
                      [NewProfile("work", None) EXCEPT !.environment = WorkEnvironment]],
     active_profile |-> None]

HomeDir == "/h"

(* The process environment of a run under zsh.                             *)
EnvWithHome ==
    [k \in {"PATH", "HOME", "SHELL"} |->
        CASE k = "PATH" -> "/usr/bin:/bin" [] k = "HOME" -> HomeDir [] k = "SHELL" -> "/bin/zsh"]

EnvWithoutHome == Del(EnvWithHome, "HOME")

(* The loaded configuration and the process environment of a run; HOME may *)
(* be unset.                                                               *)
InitialStates ==
    { <<DefaultConfig, EnvWithHome>>, <<ManualConfig, EnvWithHome>>,
      <<SeededConfig, EnvWithHome>>, <<ManualConfig, EnvWithoutHome>> }

(* The startup files of a run: a ~/.zshrc with one line of the user.       *)
InitialShellrc == [p \in {path_join(HomeDir, ".zshrc")} |-> "alias x=y"]

(* The directories that exist and that a startup file can be written       *)
(* into: the home directory and the working directory.                     *)
HomeDirs == {HomeDir, "."}

(* The same with the configuration directories of fish and PowerShell,     *)
(* which the program never creates.                                        *)
ShellDirs ==
    HomeDirs \cup {path_join(h, d) : h \in HomeDirs,
                                     d \in {".config/fish", "Documents/PowerShell"}}

(* The process environments of a run under zsh, bash, fish, a shell the    *)
(* program does not know, and with SHELL unset.                            *)
ShellEnvironments ==
    {Put(EnvWithHome, "SHELL", s) : s \in {"/bin/zsh", "/bin/bash", "/usr/bin/fish", "/bin/sh"}}
        \cup {Del(EnvWithHome, "SHELL")}

(* One startup file at `path` with the given content; its directory has to *)
(* exist.                                                                  *)
OneFile(path, content) == [p \in {path} |-> content]

(* No second invocation of the tool is running.                            *)
NoPeer == [loaded |-> FALSE, mem |-> DefaultConfig]

NoOp ==
    [op |-> "init", name |-> "", parent |-> None, pkg |-> "", strategy |-> "",
     scope |-> "", ok |-> TRUE, trace |-> <<>>, pre |-> DefaultConfig,
     state |-> DefaultEnvironmentState, who |-> "", saves |-> 0, fault |-> "none",
     repeat |-> FALSE, prior |-> [op |-> "init", ok |-> TRUE, path |-> ""],
     panic |-> FALSE]

Init ==
    /\ \E i \in InitialStates : disk = i[1] /\ env = i[2]
    /\ installations = disk.installations
    /\ profiles = disk.profiles
    /\ active_profile = disk.active_profile
    /\ bins = EmptyMap
    /\ shellrc = InitialShellrc
    /\ dirs = HomeDirs
    /\ shell_type = detect_shell(env)
    /\ envfile = None
    /\ groups = DefaultGroups
    /\ groups_file = DefaultGroups
    /\ peer = NoPeer
    /\ shell_env = env
    /\ last = NoOp
    /\ nops = 0

(* install.rs                                                              *)

(* The home directory of the user in the password database, which          *)
(* dirs::home_dir and ProjectDirs fall back to when HOME is unset or       *)
(* empty.                                                                  *)
PasswdHome == "/h"

home_dir(e) == IF HasVar(e, "HOME") /\ e["HOME"] # "" THEN e["HOME"] ELSE PasswdHome

(* ConfigManager::get_dotfiles_path: the data directory of the project.    *)
get_dotfiles_path(e) == path_join(home_dir(e), ".local/share/zshrcman/dotfiles")

(* The file InstallManager::install_zshrc writes.                          *)
zshrc_file(e) == path_join(home_dir(e), ".zshrc")

(* InstallManager::install_zshrc: `scripts` are the scripts the group      *)
(* configuration lists, `present` those that exist under dotfiles/scripts. *)
install_zshrc(w, scripts, present) ==
    IF scripts = <<>> THEN w
    ELSE fs_write(w, zshrc_file(w.env),
            read_shell_config(w, zshrc_file(w.env)) \o "\n# zshrcman managed scripts\n"
                 \o Concat([i \in DOMAIN scripts |->
                        IF scripts[i] \in present
                        THEN "source "
                             \o path_join(path_join(get_dotfiles_path(w.env), "scripts"),
                                          scripts[i])
                             \o "\n"
                        ELSE ""]))

(* InstallManager::install_group for the group names of the model: only    *)
(* the group "zshrc" has an installer that changes the state; a name with  *)
(* no installer of its own does nothing.                                   *)
install_group(w, group_name, scripts, present) ==
    IF group_name = "zshrc" THEN install_zshrc(w, scripts, present) ELSE w

RECURSIVE install_groups(_, _, _, _, _)
(* The loop of InstallManager::install.  Without --all (confirm.all) each  *)
(* group is asked for: the prompt fails when there is no terminal          *)
(* (confirm.tty), and a group the user declines (not in confirm.yes) is    *)
(* skipped.  The result of install_group goes into the status of the       *)
(* group, and only a failing update_install_status ends the loop.          *)
install_groups(w, ordered, confirm, scripts, present) ==
    IF ordered = <<>> \/ w.err THEN w
    ELSE IF ~confirm.all /\ ~confirm.tty THEN Fail(w)
    ELSE IF ~confirm.all /\ Head(ordered) \notin confirm.yes
    THEN install_groups(w, Tail(ordered), confirm, scripts, present)
    ELSE install_groups(
            update_install_status(
                [install_group(w, Head(ordered), scripts, present) EXCEPT !.err = FALSE]),
            Tail(ordered), confirm, scripts, present)

install(w, confirm, scripts, present) ==
    install_groups(w, get_ordered_groups(w.groups), confirm, scripts, present)

(* InstallManager::uninstall_group for the group names of the model: the   *)
(* installers of "zshrc" and of a name with no installer of its own undo   *)
(* nothing.                                                                *)
uninstall_group(w, group_name) == w

(* ConfigManager::clear_all_status: the status map is not part of the      *)
(* state; the save is.                                                     *)
clear_all_status(w) == save(w)

(* InstallManager::remove_all: every installed group is uninstalled, a     *)
(* failure of which is only printed, and the status is cleared.            *)
remove_all(w) == clear_all_status(w)

----------------------------------------------------------------------------
(* main.rs: handle_device_command.                                         *)

device_add(w, name) ==
    IF ~vec_contains(w.groups.per_device, name)
    THEN save([w EXCEPT !.groups.per_device = Append(@, name)])
    ELSE w

device_remove(w, name) ==
    save([w EXCEPT !.groups.per_device = Retain(@, name),
                   !.groups.enabled_devices = Retain(@, name)])

device_enable(w, name) ==
    IF /\ vec_contains(w.groups.per_device, name)
       /\ ~vec_contains(w.groups.enabled_devices, name)
    THEN save([w EXCEPT !.groups.enabled_devices = Append(@, name)])
    ELSE w

device_disable(w, name) ==
    save([w EXCEPT !.groups.enabled_devices = Retain(@, name)])

----------------------------------------------------------------------------
(* alias.rs                                                                *)

NewAliasGroup == [items |-> <<>>, active |-> <<>>]

(* `entry(group).or_insert_with(..)`: a missing group is entered into the  *)
(* map in memory, whether or not the alias is then added.                  *)
AliasManager_add(w, group, alias_def) ==
    LET alias_group == IF group \in DOMAIN w.groups.aliases THEN w.groups.aliases[group]
                       ELSE NewAliasGroup
    IN  IF ~vec_contains(alias_group.items, alias_def)
        THEN save([w EXCEPT !.groups.aliases =
                        Put(@, group, [alias_group EXCEPT !.items = Append(@, alias_def)])])
        ELSE [w EXCEPT !.groups.aliases = Put(@, group, alias_group)]

AliasManager_remove(w, group, alias_def) ==
    IF group \in DOMAIN w.groups.aliases
    THEN save([w EXCEPT !.groups.aliases[group] =
                    [items |-> Retain(@.items, alias_def),
                     active |-> Retain(@.active, alias_def)]])
    ELSE w

(* The items of a MultiSelect prompt at the checked positions, in the      *)
(* order of the items: active.push(items[idx]) for idx in the answer.      *)
checked_items(items, positions) ==
    LET selected == SelectSeq([i \in DOMAIN items |-> i], LAMBDA i : i \in positions)
    IN  [k \in DOMAIN selected |-> items[selected[k]]]

(* AliasManager::toggle.  `answer` is what the prompt returns: None when   *)
(* there is no terminal, else the positions of the items the user checks.  *)
AliasManager_toggle(w, group, answer) ==
    IF group \notin DOMAIN w.groups.aliases THEN Fail(w)
    ELSE IF w.groups.aliases[group].items = <<>> THEN w
    ELSE IF answer = None THEN Fail(w)
    ELSE LET items == w.groups.aliases[group].items
         IN  save([w EXCEPT !.groups.aliases[group] =
                        [items |-> items, active |-> checked_items(items, answer[1])]])

----------------------------------------------------------------------------
(* init.rs                                                                 *)

built_in_groups == <<"default", "brew", "npm", "pnpm", "aliases", "ssh", "zshrc">>

(* The alias groups InitManager::run inserts: for every enabled group      *)
(* whose group file lists aliases (group_aliases), one prompt over the     *)
(* aliases of that file; chosen[g] are the positions the user checks at    *)
(* the prompt of group g.                                                  *)
insert_alias_groups(aliases, enabled, group_aliases, chosen) ==
    LET offered == {g \in DOMAIN group_aliases :
                        vec_contains(enabled, g) /\ group_aliases[g] # <<>>}
    IN  [g \in DOMAIN aliases \cup offered |->
            IF g \in offered
            THEN [items |-> group_aliases[g],
                  active |-> checked_items(group_aliases[g], chosen[g])]
            ELSE aliases[g]]

(* InitManager::run on a loaded ConfigManager.  `selected` are the         *)
(* built-in groups the user checks.  The steps before the save (the        *)
(* prompts, the clone and checkout of the repository, the scaffolding) and *)
(* the commit and push after it change nothing of the state; under the     *)
(* fault init one of the former fails, under the fault push one of the     *)
(* latter.                                                                 *)
InitManager_run(w, selected, group_aliases, chosen) ==
    LET enabled_groups == SelectSeq(built_in_groups, LAMBDA g : g \in selected)
        saved == save([w EXCEPT
                    !.groups.global = push_new(@, enabled_groups),
                    !.groups.enabled_global = enabled_groups,
                    !.groups.aliases =
                        insert_alias_groups(@, enabled_groups, group_aliases, chosen)])
    IN  IF w.fault = "init" THEN Fail(w)
        ELSE IF w.fault = "push" THEN Fail(saved)
        ELSE saved

----------------------------------------------------------------------------
(* The order in which the variable map of an environment iterates, when    *)
(* the call is not given another; it decides the outcome only when a       *)
(* variable name is invalid.                                               *)
VariableOrder == <<"EDITOR", "LANG", "A=B">>

(* The orders in which a set of package names can be iterated.             *)
IterationOrders == {<<"git", "nodejs">>, <<"nodejs", "git">>}

(* The order of the package set decides the outcome only when the linking  *)
(* loop fails part way (fault bin); otherwise every order links the same   *)
(* entries.                                                                *)
OrdersUnder(fault) == IF fault = "bin" THEN IterationOrders ELSE {<<"git", "nodejs">>}

(* The orders in which the HashSets of a configuration are written, when   *)
(* the call is not given others; the order of an array decides nothing of  *)
(* the set that is read back from it.                                      *)
DefaultSetOrder ==
    [packages |-> [f \in ProfileNames |-> <<"git", "nodejs">>],
     active_for |-> [p \in Packages |-> <<"work", "personal", "default">>]]

(* The world an operation starts in, under the external failure `fault`    *)
(* and with the package sets iterating in the order `iter`.                *)
WorldIter(fault, iter) ==
    [installations |-> installations, profiles |-> profiles,
     active_profile |-> active_profile, disk |-> disk, env |-> env,
     bins |-> bins, shellrc |-> shellrc, dirs |-> dirs, shell_type |-> shell_type,
     envfile |-> envfile, groups |-> groups, groups_file |-> groups_file,
     err |-> FALSE, panic |-> FALSE, hash_order |-> VariableOrder,
     set_order |-> DefaultSetOrder, nsaves |-> 0,
     fault |-> fault, trace |-> <<>>, iter |-> iter]

(* The world of an operation that iterates no package set in an            *)
(* order-dependent way.                                                    *)
World(fault) == WorldIter(fault, <<"git", "nodejs">>)

Pre ==
    [installations |-> installations, profiles |-> profiles,
     active_profile |-> active_profile, disk |-> disk, env |-> env,
     bins |-> bins, shellrc |-> shellrc, envfile |-> envfile, groups |-> groups,
     groups_file |-> groups_file]

(* The operation returns: the world it leaves behind becomes the state.    *)
Return(world, call) ==
    /\ nops < MaxOps
    /\ \E w \in {world} :
          /\ nops' = nops + 1
          /\ installations' = w.installations
          /\ profiles' = w.profiles
          /\ active_profile' = w.active_profile
          /\ disk' = w.disk
          /\ env' = w.env
          /\ bins' = w.bins
          /\ shellrc' = w.shellrc
          /\ dirs' = dirs
          /\ shell_type' = shell_type
          /\ envfile' = w.envfile
          /\ groups' = w.groups
          /\ groups_file' = w.groups_file
          /\ peer' = peer
          /\ shell_env' = shell_env
          /\ last' = [call EXCEPT !.ok = ~w.err, !.trace = w.trace, !.pre = Pre,
                                  !.saves = w.nsaves,
                                  !.repeat = (last.ok /\ last.op = call.op /\ last.name = call.name),
                                  !.panic = w.panic]

CreateProfile ==
    \E name \in ProfileNames, fault \in {"none"} :
        LET parent == IF name = "work" THEN None ELSE Some("work")
        IN  Return(create_profile(World(fault), name, parent),
                   [NoOp EXCEPT !.op = "create_profile", !.name = name, !.parent = parent])

SwitchProfile ==
    \E name \in ProfileNames, fault \in {"none"} :
        Return(switch_profile(World(fault), name),
               [NoOp EXCEPT !.op = "switch_profile", !.name = name])

SmartInstall ==
    \E package \in Packages, scope \in Scopes, fault \in {"none", "save1", "save1w"} :
        Return(smart_install(World(fault), package, scope),
               [NoOp EXCEPT !.op = "smart_install", !.pkg = package, !.scope = scope])

HandleRemoval ==
    \E package \in Packages, strategy \in Strategies, fault \in {"none"} :
        Return(handle_removal(World(fault), package, strategy),
               [NoOp EXCEPT !.op = "handle_removal", !.pkg = package, !.strategy = strategy])

(* A command of main.rs is a new process: its environment is the one the   *)
(* shell hands it (shell_env), not what an earlier process made of its own *)
(* with set_var, and its managers are built from the configuration file.   *)
NewProcess(fault) == Load([World(fault) EXCEPT !.env = shell_env])

(* `zshrcman profile delete <name>`: the removal exists in the handler of   *)
(* main.rs only, so it always runs in a new process.                       *)
DeleteProfile ==
    \E name \in ProfileNames, fault \in {"none"} :
        Return(delete_profile(NewProcess(fault), name),
               [NoOp EXCEPT !.op = "delete_profile", !.name = name])

SwitcherSwitch ==
    \E name \in ProfileNames, fault \in Faults \ {"save2", "save2w"} :
      \E iter \in OrdersUnder(fault) :
        Return(ProfileSwitcher_switch_profile(WorldIter(fault, iter), name),
               [NoOp EXCEPT !.op = "ProfileSwitcher::switch_profile", !.name = name])

SwitcherActivate ==
    \E name \in ProfileNames, fault \in {"none", "bin", "rc", "rcw"} :
      \E iter \in OrdersUnder(fault) :
        Return(activate_profile(WorldIter(fault, iter), name),
               [NoOp EXCEPT !.op = "activate_profile", !.name = name])

SwitcherDeactivate ==
    Return(deactivate_current(World("none")), [NoOp EXCEPT !.op = "deactivate_current"])

(* The call before this one: its name, its result and the PATH it started  *)
(* from.                                                                   *)
PriorCall ==
    [op |-> last.op, ok |-> last.ok,
     path |-> IF last.op = "init" THEN "" ELSE VarOrDefault(last.pre.env, "PATH")]

(* main.rs builds its managers from the configuration file before each     *)
(* command: a new ConfigManager and InstallationStateManager.              *)
NewStateManager ==
    Return(NewProcess("none"), [NoOp EXCEPT !.op = "new", !.prior = PriorCall])

(* A command that asks the operator builds its manager from the file,      *)
(* waits at the prompt and saves what it read.  `overlapped`: the previous *)
(* operation ran while the command waited, so the manager holds the files  *)
(* as they were before that operation and the save loses its update.  An   *)
(* operation that left the files as they were makes no difference.         *)
Overlaps ==
    IF last.op = "init" THEN {FALSE}
    ELSE IF last.pre.disk = disk /\ last.pre.groups_file = groups_file THEN {FALSE}
    ELSE BOOLEAN

LoadedAtPrompt(fault, overlapped) ==
    IF overlapped
    THEN [NewProcess(fault) EXCEPT !.installations = last.pre.disk.installations,
                                   !.profiles = last.pre.disk.profiles,
                                   !.active_profile = last.pre.disk.active_profile,
                                   !.groups = last.pre.groups_file]
    ELSE NewProcess(fault)

(* The scripts the configuration of the group "zshrc" lists, and those of  *)
(* them that exist.                                                        *)
ScriptLists == {<<>>, <<"a.sh", "b.sh">>}

PresentScripts == {"a.sh"}

(* The group "zshrc" is among the groups the manager of the command has    *)
(* loaded as enabled.                                                      *)
ZshrcEnabled(overlapped) ==
    vec_contains(get_ordered_groups(LoadedAtPrompt("none", overlapped).groups), "zshrc")

(* The answers of a run of `zshrcman install`: --all, no terminal to ask   *)
(* on, or a user who confirms the group "zshrc" only.                      *)
Confirmations ==
    {[all |-> TRUE, tty |-> TRUE, yes |-> {}],
     [all |-> FALSE, tty |-> FALSE, yes |-> {}],
     [all |-> FALSE, tty |-> TRUE, yes |-> {"zshrc"}]}

(* The failures of a command that saves the configuration once.            *)
CommandFaults == {"none", "save1w"}

(* A run meets one irregularity at most: the external failures are drawn   *)
(* for the runs that no other command overlaps.                            *)
FaultsOf(faults, overlapped) == IF overlapped THEN {"none"} ELSE faults

(* `zshrcman install [--all]`: a ConfigManager loaded from the file, then  *)
(* InstallManager::install.  The scripts of the group and a failing write  *)
(* of ~/.zshrc matter only when the group "zshrc" is installed.            *)
Install ==
    \E overlapped \in Overlaps :
      \E confirm \in Confirmations,
         scripts \in IF ZshrcEnabled(overlapped) THEN ScriptLists ELSE {<<>>},
         fault \in FaultsOf(IF ZshrcEnabled(overlapped)
                            THEN {"none", "rcw", "save1", "save1w"}
                            ELSE {"none", "save1", "save1w"}, overlapped) :
        Return(install(LoadedAtPrompt(fault, overlapped), confirm, scripts, PresentScripts),
               [NoOp EXCEPT !.op = "install",
                            !.who = IF overlapped THEN "overlapped" ELSE ""])

(* `zshrcman remove-all`.                                                  *)
RemoveAll ==
    \E fault \in CommandFaults :
        Return(remove_all(NewProcess(fault)), [NoOp EXCEPT !.op = "remove_all"])

(* The names the group and device commands of a run are given.             *)
CommandNames == {"zshrc"}

(* `zshrcman group add|remove|enable|disable <name>`: each command builds  *)
(* a ConfigManager from the file.  No name of the model is similar to      *)
(* another, so check_typo asks nothing.                                    *)
GroupAdd ==
    \E name \in CommandNames, fault \in CommandFaults :
        Return(add_global_group(NewProcess(fault), name),
               [NoOp EXCEPT !.op = "group add", !.name = name])

GroupRemove ==
    \E name \in CommandNames, fault \in CommandFaults :
        Return(remove_global_group(NewProcess(fault), name),
               [NoOp EXCEPT !.op = "group remove", !.name = name])

GroupEnable ==
    \E name \in CommandNames, fault \in CommandFaults :
        Return(enable_global_group(NewProcess(fault), name),
               [NoOp EXCEPT !.op = "group enable", !.name = name])

GroupDisable ==
    \E name \in CommandNames, fault \in CommandFaults :
        Return(disable_global_group(NewProcess(fault), name),
               [NoOp EXCEPT !.op = "group disable", !.name = name])

(* `zshrcman device add|remove|enable|disable <name>`.                     *)
DeviceAdd ==
    \E name \in CommandNames, fault \in CommandFaults :
        Return(device_add(NewProcess(fault), name),
               [NoOp EXCEPT !.op = "device add", !.name = name])

DeviceRemove ==
    \E name \in CommandNames, fault \in CommandFaults :
        Return(device_remove(NewProcess(fault), name),
               [NoOp EXCEPT !.op = "device remove", !.name = name])

DeviceEnable ==
    \E name \in CommandNames, fault \in CommandFaults :
        Return(device_enable(NewProcess(fault), name),
               [NoOp EXCEPT !.op = "device enable", !.name = name])

DeviceDisable ==
    \E name \in CommandNames, fault \in CommandFaults :
        Return(device_disable(NewProcess(fault), name),
               [NoOp EXCEPT !.op = "device disable", !.name = name])

(* The alias of the default group file.                                    *)
AliasDef == "alias ll=\"ls -la\""

(* `zshrcman alias add|remove|toggle`, on the alias group "default".       *)
AliasAdd ==
    \E fault \in CommandFaults :
        Return(AliasManager_add(NewProcess(fault), "default", AliasDef),
               [NoOp EXCEPT !.op = "alias add", !.name = "default"])

AliasRemove ==
    \E fault \in CommandFaults :
        Return(AliasManager_remove(NewProcess(fault), "default", AliasDef),
               [NoOp EXCEPT !.op = "alias remove", !.name = "default"])

AliasToggle ==
    \E overlapped \in Overlaps :
      \E answer \in {None, Some({}), Some({1})}, fault \in FaultsOf(CommandFaults, overlapped) :
        Return(AliasManager_toggle(LoadedAtPrompt(fault, overlapped), "default", answer),
               [NoOp EXCEPT !.op = "alias toggle", !.name = "default",
                            !.who = IF overlapped THEN "overlapped" ELSE ""])

(* The aliases the group files of the repository list: the file of        *)
(* "default" lists one alias twice, the file of "zshrc" lists none.        *)
GroupFileAliases ==
    [g \in {"default", "zshrc"} |->
        IF g = "default" THEN <<AliasDef, AliasDef>> ELSE <<>>]

(* What the operator checks at the alias prompt of each group that has     *)
(* one, as the positions of the checked items.                             *)
AliasAnswers == {[g \in {"default"} |-> d] : d \in {{}, {1}}}

(* `zshrcman init --force`, or `zshrcman init` on a configuration without  *)
(* a repository: InitManager::run.  The user checks "default", "zshrc" or  *)
(* both, and then aliases of each of them that lists some.                 *)
(* Without --force the command returns at once when the configuration     *)
(* names a repository (`already`: the URL is not part of the state).       *)
(* A run draws the inputs it reads: none after the early return, and the   *)
(* answers to the prompts only when no step before them fails.             *)
InitCommand ==
    \E already \in BOOLEAN, overlapped \in Overlaps :
      \E fault \in IF already THEN {"none"}
                   ELSE FaultsOf({"none", "init", "push", "save1w"}, overlapped) :
        \E selected \in IF already \/ fault = "init" THEN {{"default"}}
                        ELSE {{"default"}, {"zshrc"}, {"default", "zshrc"}} :
          \E chosen \in IF already \/ fault = "init" \/ "default" \notin selected
                        THEN {[g \in {"default"} |-> {}]} ELSE AliasAnswers :
            Return(IF already THEN NewProcess(fault)
                   ELSE InitManager_run(LoadedAtPrompt(fault, overlapped), selected,
                                        GroupFileAliases, chosen),
                   [NoOp EXCEPT !.op = "init run", !.fault = fault,
                                !.who = IF overlapped /\ ~already THEN "overlapped" ELSE ""])

(* Reached in a run of two commands: the group that `group add` wrote to   *)
(* the file while another command waited at its prompt is gone from the    *)
(* file after the save of that command.                                    *)
LostUpdate ==
    /\ last.op \in {"install", "init run"}
    /\ last.who = "overlapped"
    /\ last.ok
    /\ vec_contains(last.pre.groups_file.global, "zshrc")
    /\ ~vec_contains(groups_file.global, "zshrc")

Next ==
    \/ CreateProfile
    \/ SwitchProfile
    \/ SmartInstall
    \/ HandleRemoval
    \/ DeleteProfile
    \/ SwitcherSwitch
    \/ SwitcherActivate
    \/ SwitcherDeactivate
    \/ NewStateManager
    \/ Install
    \/ RemoveAll
    \/ InitCommand
    \/ GroupAdd
    \/ GroupRemove
    \/ GroupEnable
    \/ GroupDisable
    \/ DeviceAdd
    \/ DeviceRemove
    \/ DeviceEnable
    \/ DeviceDisable
    \/ AliasAdd
    \/ AliasRemove
    \/ AliasToggle

Spec == Init /\ [][Next]_vars

----------------------------------------------------------------------------
(* Vocabulary of the properties.                                           *)

(* The in-memory state manager of the current state.                       *)
Mem ==
    [installations |-> installations, profiles |-> profiles,
     active_profile |-> active_profile]

(* The state manager together with the bin directories.                    *)
MemFs ==
    [installations |-> installations, profiles |-> profiles,
     active_profile |-> active_profile, bins |-> bins]

(* Every identity that can occur in an active_for set.                     *)
Identities == ProfileNames \cup {"default"}

ActiveFor(inst, p) == IF p \in DOMAIN inst THEN inst[p].active_for ELSE {}

PackagesOf(prof, f) == IF f \in DOMAIN prof THEN prof[f].packages ELSE {}

(* The file and symlink entries of a profile's bin directory.              *)
Links(b, f) ==
    IF f \in DOMAIN b THEN {n \in DOMAIN b[f] : b[f][n].kind \in {"file", "symlink"}} ELSE {}

(* The entries of PATH.                                                    *)
PathEntries(e) ==
    LET parts == Split(VarOrDefault(e, "PATH"), ":")
    IN  {parts[i] : i \in 1..Len(parts)}

BinDirOf(f) == HomeDir \o "/.local/share/zshrcman/profiles/" \o f \o "/bin"

Symmetric(inst, prof) ==
    \A p \in Packages, f \in Identities :
        (f \in ActiveFor(inst, p)) <=> (p \in PackagesOf(prof, f))

Mirrors(w, c) == Links(w.bins, c) = LinkedPackages(w, c)

(* The step of the last switch that failed, 0 when it succeeded.           *)
FailedStep ==
    IF last.ok \/ last.trace = <<>> THEN 0 ELSE last.trace[Len(last.trace)].step

----------------------------------------------------------------------------
(* C1: symmetry invariant.  After every successful mutating operation, for *)
(* every package p and identity f, f is in ledger[p].active_for exactly    *)
(* when profile f exists and p is in profiles[f].packages.                 *)
C1_Symmetry ==
    (last.op # "init" /\ last.ok) => Symmetric(installations, profiles)

(* C2: every mutation is persisted.  After an operation that returns       *)
(* success and changed the in-memory ledger, registry or pointer, the      *)
(* persisted snapshot equals the in-memory ledger, registry and pointer.   *)
C2_MutationPersisted ==
    ( /\ last.op # "init"
      /\ last.ok
      /\ Mem # [installations |-> last.pre.installations,
                profiles |-> last.pre.profiles,
                active_profile |-> last.pre.active_profile] )
    => disk = Mem

IsSwitch == last.op = "ProfileSwitcher::switch_profile"

(* The steps switch_profile has to run: step 1 only when a profile was     *)
(* active at the call.                                                     *)
ExpectedSteps ==
    IF last.pre.active_profile # None THEN <<1, 2, 3, 4, 5>> ELSE <<2, 3, 4, 5>>

(* C3: ProfileSwitcher::switch_profile runs (1) deactivate old, (2) update *)
(* and persist the pointer, (3) apply the new environment, (4) relink the  *)
(* bin directory, (5) rewrite the marker, in that order; a step starts     *)
(* only after every earlier step succeeded, and after a failed step no     *)
(* later step runs, so the later steps' effects are absent.                *)
C3_StepOrder ==
    IsSwitch =>
        LET t == last.trace
        IN  /\ Len(t) \in 1..Len(ExpectedSteps)
            /\ \A i \in 1..Len(t) : t[i].step = ExpectedSteps[i]
            /\ \A i \in 1..(Len(t) - 1) : t[i].ok
            /\ last.ok <=> (Len(t) = Len(ExpectedSteps) /\ t[Len(t)].ok)
            /\ ~last.ok => ~t[Len(t)].ok
            /\ FailedStep = 1 => /\ active_profile = last.pre.active_profile
                                 /\ disk = last.pre.disk
            /\ FailedStep \in {1, 2} =>
                    PathEntries(env) \subseteq PathEntries(last.pre.env)
            /\ FailedStep \in {1, 2, 3} => bins = last.pre.bins
            /\ FailedStep \in {1, 2, 3, 4} => shellrc = last.pre.shellrc

(* Reached: a switch away from an active profile whose steps 1-3 succeeded *)
(* and whose step 4 failed.                                                *)
C3_Witness ==
    /\ IsSwitch
    /\ last.pre.active_profile # None
    /\ FailedStep = 4
    /\ Len(last.trace) = 4

(* C4: no rollback.  When switch_profile(new) fails at step 3, 4 or 5, the *)
(* in-memory and the persisted pointer both name new, and what the         *)
(* completed steps did is still in place: the old profile's bin directory  *)
(* is off PATH and the variables only the old profile defines are unset;   *)
(* after step 3 new's bin directory is on PATH, after step 4 new's bin     *)
(* directory holds its links.                                              *)
C4_NoRollback ==
    (IsSwitch /\ FailedStep \in {3, 4, 5}) =>
        LET new == last.name
            old == last.pre.active_profile
            newvars == DOMAIN last.pre.profiles[new].environment.variables
        IN  /\ active_profile = Some(new)
            /\ disk.active_profile = Some(new)
            /\ (old # None /\ old[1] # new /\ old[1] \in DOMAIN last.pre.profiles) =>
                    /\ BinDirOf(old[1]) \notin PathEntries(env)
                    /\ \A k \in DOMAIN last.pre.profiles[old[1]].environment.variables :
                            k \notin newvars => k \notin DOMAIN env
            /\ FailedStep \in {4, 5} => BinDirOf(new) \in PathEntries(env)
            /\ FailedStep = 5 => Mirrors(MemFs, new)

(* Reached: a switch between two different profiles that failed at step 5  *)
(* after the old profile's bin directory had been on PATH.                 *)
C4_Witness ==
    /\ IsSwitch
    /\ FailedStep = 5
    /\ last.pre.active_profile # None
    /\ last.pre.active_profile[1] # last.name
    /\ BinDirOf(last.pre.active_profile[1]) \in PathEntries(last.pre.env)

(* C5: after a successful switch_profile(new) from an active profile old   *)
(* different from new, old's bin directory has no file or symlink entry.   *)
C5_OldLinksCleared ==
    ( /\ IsSwitch
      /\ last.ok
      /\ last.pre.active_profile # None
      /\ last.pre.active_profile[1] # last.name )
    => Links(bins, last.pre.active_profile[1]) = {}

(* C6: bin-directory mirror.  A successful switch_profile,                 *)
(* activate_profile, smart_install or handle_removal that starts where the *)
(* active profile's bin directory mirrors its located packages (or no      *)
(* profile is active) ends where the active profile's bin directory        *)
(* mirrors its located packages.                                           *)
C6_BinMirror ==
    ( /\ last.op \in {"ProfileSwitcher::switch_profile", "activate_profile",
                      "smart_install", "handle_removal"}
      /\ last.ok
      /\ last.pre.active_profile # None => Mirrors(last.pre, last.pre.active_profile[1])
      /\ active_profile # None )
    => Mirrors(MemFs, active_profile[1])

IsInstall == last.op = "smart_install"

(* C7: activate path of smart_install.  With p already in the ledger and c *)
(* active, smart_install(p, scope) adds c to ledger[p].active_for and p to *)
(* profiles[c].packages, keeps the earlier members of active_for, creates  *)
(* no record, and changes no other field of the record and no other        *)
(* record.                                                                 *)
C7_ActivatePath ==
    ( /\ IsInstall
      /\ last.pkg \in DOMAIN last.pre.installations
      /\ last.pre.active_profile # None )
    => LET p == last.pkg
           c == last.pre.active_profile[1]
       IN  /\ DOMAIN installations = DOMAIN last.pre.installations
           /\ installations[p].active_for = last.pre.installations[p].active_for \cup {c}
           /\ installations[p] = [last.pre.installations[p] EXCEPT !.active_for = @ \cup {c}]
           /\ \A q \in DOMAIN installations : q # p => installations[q] = last.pre.installations[q]
           /\ c \in DOMAIN profiles
           /\ profiles[c].packages = last.pre.profiles[c].packages \cup {p}

(* Reached: smart_install of a ledger package that another profile already *)
(* used and the active profile did not.                                    *)
C7_Witness ==
    /\ IsInstall
    /\ last.pkg \in DOMAIN last.pre.installations
    /\ last.pre.active_profile # None
    /\ last.pre.active_profile[1] \notin last.pre.installations[last.pkg].active_for
    /\ last.pre.installations[last.pkg].active_for # {}
    /\ last.pre.installations[last.pkg].location # None

(* C8: new-package path of smart_install.  With p not in the ledger and c  *)
(* active, smart_install(p, scope) inserts a record with active_for = {c}, *)
(* the given scope and source Profile(c), adds p to profiles[c].packages,  *)
(* and is_installed(p) and is_active(p) hold afterwards.                   *)
C8_NewPackagePath ==
    ( /\ IsInstall
      /\ last.pkg \notin DOMAIN last.pre.installations
      /\ last.pre.active_profile # None )
    => LET p == last.pkg
           c == last.pre.active_profile[1]
       IN  /\ p \in DOMAIN installations
           /\ installations[p].active_for = {c}
           /\ installations[p].scope = last.scope
           /\ installations[p].installed_by = <<"Profile", c>>
           /\ c \in DOMAIN profiles
           /\ p \in profiles[c].packages
           /\ is_installed(Mem, p)
           /\ is_active(Mem, p)

(* Reached: smart_install of a package that had no ledger entry, with a    *)
(* profile active.                                                         *)
C8_Witness ==
    /\ IsInstall
    /\ last.ok
    /\ last.pkg \notin DOMAIN last.pre.installations
    /\ last.pre.active_profile # None

(* C9: default identity.  With no profile active, smart_install(p, scope)  *)
(* adds "default" to ledger[p].active_for when p is in the ledger, and     *)
(* creates the record with active_for = {"default"} when it is not.        *)
C9_DefaultIdentity ==
    (IsInstall /\ last.pre.active_profile = None) =>
        /\ last.pkg \in DOMAIN installations
        /\ IF last.pkg \in DOMAIN last.pre.installations
           THEN "default" \in installations[last.pkg].active_for
           ELSE installations[last.pkg].active_for = {"default"}

IsSmartRemove == last.op = "handle_removal" /\ last.strategy = "SmartRemove"

(* C10 as stated: whenever ledger[p].active_for has n >= 2 members,        *)
(* handle_removal(p, SmartRemove) leaves p in the ledger with exactly      *)
(* n - 1 members, the current profile being the one removed.               *)
C10_SharedAnyState ==
    ( /\ IsSmartRemove
      /\ Cardinality(ActiveFor(last.pre.installations, last.pkg)) >= 2 )
    => /\ last.pkg \in DOMAIN installations
       /\ Cardinality(installations[last.pkg].active_for)
            = Cardinality(last.pre.installations[last.pkg].active_for) - 1
       /\ last.pre.active_profile # None
       /\ installations[last.pkg].active_for
            = last.pre.installations[last.pkg].active_for \ {last.pre.active_profile[1]}

(* C10 amended: whenever ledger[p].active_for has n >= 2 members and the   *)
(* active profile is one of them, handle_removal(p, SmartRemove) leaves p  *)
(* in the ledger with exactly n - 1 members, the active profile being the  *)
(* one removed.                                                            *)
C10_SharedMember ==
    ( /\ IsSmartRemove
      /\ Cardinality(ActiveFor(last.pre.installations, last.pkg)) >= 2
      /\ last.pre.active_profile # None
      /\ last.pre.active_profile[1] \in ActiveFor(last.pre.installations, last.pkg) )
    => /\ last.pkg \in DOMAIN installations
       /\ Cardinality(installations[last.pkg].active_for)
            = Cardinality(last.pre.installations[last.pkg].active_for) - 1
       /\ installations[last.pkg].active_for
            = last.pre.installations[last.pkg].active_for \ {last.pre.active_profile[1]}

(* Reached: SmartRemove by an active profile that shares the package with  *)
(* another profile.                                                        *)
C10_Witness ==
    /\ IsSmartRemove
    /\ last.pre.active_profile # None
    /\ last.pre.active_profile[1] \in ActiveFor(last.pre.installations, last.pkg)
    /\ Cardinality(ActiveFor(last.pre.installations, last.pkg)) = 2
    /\ Cardinality(ActiveFor(installations, last.pkg)) = 1

----------------------------------------------------------------------------
(* The removal strategies.                                                 *)

IsRemoval(strategy) == last.op = "handle_removal" /\ last.strategy = strategy

(* The state manager the last operation was called on.                     *)
PreMem ==
    [installations |-> last.pre.installations, profiles |-> last.pre.profiles,
     active_profile |-> last.pre.active_profile]

(* The world the last operation was called on, with no external failure.   *)
PreWorld ==
    [installations |-> last.pre.installations, profiles |-> last.pre.profiles,
     active_profile |-> last.pre.active_profile, disk |-> last.pre.disk,
     env |-> last.pre.env, bins |-> last.pre.bins, shellrc |-> last.pre.shellrc,
     dirs |-> dirs, shell_type |-> shell_type, envfile |-> last.pre.envfile,
     groups |-> last.pre.groups, groups_file |-> last.pre.groups_file,
     err |-> FALSE, panic |-> FALSE, hash_order |-> VariableOrder,
     set_order |-> DefaultSetOrder, nsaves |-> 0,
     fault |-> "none", trace |-> <<>>, iter |-> <<"git", "nodejs">>]

(* C11: SmartRemove with last reference.  When ledger[p].active_for has at *)
(* most one member, handle_removal(p, SmartRemove) deletes the ledger      *)
(* entry for p, so is_installed(p) is false afterwards.                    *)
C11_LastReference ==
    ( /\ IsRemoval("SmartRemove")
      /\ last.pkg \in DOMAIN last.pre.installations
      /\ Cardinality(last.pre.installations[last.pkg].active_for) <= 1 )
    => /\ last.ok
       /\ last.pkg \notin DOMAIN installations
       /\ ~is_installed(Mem, last.pkg)
       /\ last.pkg \notin DOMAIN disk.installations

(* Reached: SmartRemove by the only profile that still uses the package.   *)
C11_Witness ==
    /\ IsRemoval("SmartRemove")
    /\ last.pkg \in DOMAIN last.pre.installations
    /\ last.pre.active_profile # None
    /\ last.pre.installations[last.pkg].active_for = {last.pre.active_profile[1]}
    /\ last.pkg \notin DOMAIN installations

(* C12: Deactivate touches only the active profile's pair.  With profile c *)
(* active, handle_removal(p, Deactivate) removes c from                    *)
(* ledger[p].active_for and p from profiles[c].packages; a ledger entry of *)
(* p stays (also with active_for empty) and is_active(p) is false; every   *)
(* other member of active_for, every other field of the record, every      *)
(* other record and every other profile are unchanged.                     *)
C12_DeactivateFrame ==
    (IsRemoval("Deactivate") /\ last.pre.active_profile # None) =>
        LET p == last.pkg
            c == last.pre.active_profile[1]
            pi == last.pre.installations
            pp == last.pre.profiles
        IN  /\ DOMAIN installations = DOMAIN pi
            /\ p \in DOMAIN pi =>
                    /\ is_installed(Mem, p)
                    /\ installations[p] = [pi[p] EXCEPT !.active_for = @ \ {c}]
            /\ ActiveFor(installations, p) = ActiveFor(pi, p) \ {c}
            /\ ~is_active(Mem, p)
            /\ \A q \in DOMAIN pi : q # p => installations[q] = pi[q]
            /\ DOMAIN profiles = DOMAIN pp
            /\ c \in DOMAIN pp => profiles[c] = [pp[c] EXCEPT !.packages = @ \ {p}]
            /\ PackagesOf(profiles, c) = PackagesOf(pp, c) \ {p}
            /\ \A f \in DOMAIN pp : f # c => profiles[f] = pp[f]
            /\ active_profile = last.pre.active_profile

(* Reached: Deactivate by the only user of a package, which leaves a       *)
(* ledger entry with an empty active_for.                                  *)
C12_Witness ==
    /\ IsRemoval("Deactivate")
    /\ last.pre.active_profile # None
    /\ last.pkg \in DOMAIN last.pre.installations
    /\ last.pre.installations[last.pkg].active_for = {last.pre.active_profile[1]}
    /\ last.pkg \in last.pre.profiles[last.pre.active_profile[1]].packages
    /\ last.pkg \in DOMAIN installations
    /\ installations[last.pkg].active_for = {}

(* C13: RemoveFromProfile.  With profile c active, after                   *)
(* handle_removal(p, RemoveFromProfile) p is not in profiles[c].packages;  *)
(* c is removed from ledger[p].active_for exactly when no profile other    *)
(* than c is a member of it; the ledger entry stays and the other          *)
(* profiles' package sets are unchanged.                                   *)
C13_RemoveFromProfile ==
    (IsRemoval("RemoveFromProfile") /\ last.pre.active_profile # None) =>
        LET p == last.pkg
            c == last.pre.active_profile[1]
            pi == last.pre.installations
            pp == last.pre.profiles
            others == ActiveFor(pi, p) \ {c}
        IN  /\ p \notin PackagesOf(profiles, c)
            /\ PackagesOf(profiles, c) = PackagesOf(pp, c) \ {p}
            /\ ActiveFor(installations, p) = IF others = {} THEN {} ELSE ActiveFor(pi, p)
            /\ c \in ActiveFor(pi, p) =>
                    ((c \notin ActiveFor(installations, p)) <=> (others = {}))
            /\ DOMAIN installations = DOMAIN pi
            /\ \A q \in DOMAIN pi : q # p => installations[q] = pi[q]
            /\ DOMAIN profiles = DOMAIN pp
            /\ \A f \in DOMAIN pp : f # c => profiles[f].packages = pp[f].packages

(* Reached: RemoveFromProfile of a package the active profile shares with  *)
(* another profile: the package leaves the profile's set and the profile   *)
(* stays in active_for.                                                    *)
C13_Witness ==
    /\ IsRemoval("RemoveFromProfile")
    /\ last.pre.active_profile # None
    /\ last.pre.active_profile[1] \in ActiveFor(last.pre.installations, last.pkg)
    /\ ActiveFor(last.pre.installations, last.pkg) \ {last.pre.active_profile[1]} # {}
    /\ last.pkg \in PackagesOf(last.pre.profiles, last.pre.active_profile[1])
    /\ last.pkg \notin PackagesOf(profiles, last.pre.active_profile[1])
    /\ last.pre.active_profile[1] \in ActiveFor(installations, last.pkg)

(* C14: ForceRemove.  After a successful handle_removal(p, ForceRemove), p *)
(* has no ledger entry and is in no profile's package set, whatever        *)
(* active_for contained and whether or not a profile is active.            *)
C14_ForceRemove ==
    (IsRemoval("ForceRemove") /\ last.ok) =>
        /\ last.pkg \notin DOMAIN installations
        /\ \A f \in DOMAIN profiles : last.pkg \notin profiles[f].packages
        /\ DOMAIN profiles = DOMAIN last.pre.profiles

(* Reached: ForceRemove of a package that two profiles used, by a profile  *)
(* that is one of them.                                                    *)
C14_Witness ==
    /\ IsRemoval("ForceRemove")
    /\ last.ok
    /\ last.pre.active_profile # None
    /\ Cardinality(ActiveFor(last.pre.installations, last.pkg)) = 2
    /\ \A f \in ProfileNames : last.pkg \in PackagesOf(last.pre.profiles, f)

(* C15: MarkUnused is equivalent to Deactivate.  From every state,         *)
(* handle_removal(p, MarkUnused) ends with the ledger, registry, pointer,  *)
(* persisted snapshot and result that handle_removal(p, Deactivate) gives  *)
(* from that state.                                                        *)
C15_MarkUnusedIsDeactivate ==
    IsRemoval("MarkUnused") =>
        /\ Mem = Snapshot(handle_removal(PreWorld, last.pkg, "Deactivate"))
        /\ disk = handle_removal(PreWorld, last.pkg, "Deactivate").disk
        /\ last.ok = ~handle_removal(PreWorld, last.pkg, "Deactivate").err

(* Reached: MarkUnused of a package the active profile uses, which changes *)
(* the ledger and the registry and keeps the entry.                        *)
C15_Witness ==
    /\ IsRemoval("MarkUnused")
    /\ last.pre.active_profile # None
    /\ last.pre.active_profile[1] \in ActiveFor(last.pre.installations, last.pkg)
    /\ last.pkg \in DOMAIN installations
    /\ last.pre.active_profile[1] \notin ActiveFor(installations, last.pkg)
    /\ profiles # last.pre.profiles

(* The strategies the claim C16 counts as acting on the current profile.   *)
CurrentProfileStrategies == {"Deactivate", "RemoveFromProfile", "MarkUnused", "SmartRemove"}

(* C16 as stated: with no profile active, handle_removal returns success   *)
(* for every strategy, and Deactivate, RemoveFromProfile, MarkUnused and   *)
(* SmartRemove leave the ledger and every profile's package set unchanged. *)
C16_NoActiveNoOp ==
    (last.op = "handle_removal" /\ last.pre.active_profile = None) =>
        /\ last.ok
        /\ last.strategy \in CurrentProfileStrategies =>
                /\ installations = last.pre.installations
                /\ profiles = last.pre.profiles

(* C16 amended: with no profile active, handle_removal returns success for *)
(* every strategy, and Deactivate, RemoveFromProfile, MarkUnused, and      *)
(* SmartRemove of a package whose active_for has two or more members,      *)
(* leave the ledger and every profile's package set unchanged.             *)
C16_NoActiveShared ==
    (last.op = "handle_removal" /\ last.pre.active_profile = None) =>
        /\ last.ok
        /\ ( \/ last.strategy \in CurrentProfileStrategies \ {"SmartRemove"}
             \/ /\ last.strategy = "SmartRemove"
                /\ Cardinality(ActiveFor(last.pre.installations, last.pkg)) >= 2 )
           => /\ installations = last.pre.installations
              /\ profiles = last.pre.profiles

(* Reached: SmartRemove, with no profile active, of a package that two    *)
(* profiles use: the call succeeds and changes nothing.                    *)
C16_Witness ==
    /\ IsRemoval("SmartRemove")
    /\ last.pre.active_profile = None
    /\ last.ok
    /\ Cardinality(ActiveFor(last.pre.installations, last.pkg)) = 2
    /\ \E f \in DOMAIN last.pre.profiles : last.pkg \in last.pre.profiles[f].packages
    /\ Mem = PreMem

(* C17: activate_profile(name) performs only steps 3-5.  It leaves the     *)
(* in-memory and the persisted pointer, the ledger and every profile       *)
(* unchanged, removes no PATH entry and unsets no variable that was set,   *)
(* and leaves every other profile's bin directory as it was.               *)
C17_ActivateFrame ==
    last.op = "activate_profile" =>
        /\ Len(last.trace) \in 1..3
        /\ \A i \in 1..Len(last.trace) : last.trace[i].step = i + 2
        /\ Mem = PreMem
        /\ disk = last.pre.disk
        /\ PathEntries(last.pre.env) \subseteq PathEntries(env)
        /\ DOMAIN last.pre.env \subseteq DOMAIN env
        /\ \A f \in ProfileNames :
                f # last.name => BinEntries(MemFs, f) = BinEntries(last.pre, f)

(* Reached: a successful activate_profile of a profile while another       *)
(* profile is the active one, with its links in place and its bin          *)
(* directory on PATH.                                                      *)
C17_Witness ==
    /\ last.op = "activate_profile"
    /\ last.ok
    /\ last.pre.active_profile # None
    /\ last.pre.active_profile[1] # last.name
    /\ Links(last.pre.bins, last.pre.active_profile[1]) # {}
    /\ BinDirOf(last.pre.active_profile[1]) \in PathEntries(last.pre.env)
    /\ BinDirOf(last.name) \in PathEntries(env)

(* The expanded PATH entries of an environment description.                *)
ExpandedPaths(e, env_state) ==
    {expand_path(e, (env_state.paths_prepend \o env_state.paths_append)[i])[1] :
        i \in 1..Len(env_state.paths_prepend \o env_state.paths_append)}

(* C18: a successful deactivate_current with profile c active ends with    *)
(* the pointer empty, no file or symlink entry in c's bin directory, c's   *)
(* PATH entries and bin directory off PATH and c's variables unset; the    *)
(* shell configuration file is never changed; with no profile active the   *)
(* call changes nothing and returns success.                               *)
C18_DeactivateCurrent ==
    last.op = "deactivate_current" =>
        /\ shellrc = last.pre.shellrc
        /\ last.pre.active_profile = None =>
                /\ last.ok
                /\ Mem = PreMem
                /\ bins = last.pre.bins
                /\ disk = last.pre.disk
                /\ env = last.pre.env
        /\ (last.pre.active_profile # None /\ last.ok) =>
                LET c == last.pre.active_profile[1]
                IN  /\ active_profile = None
                    /\ Links(bins, c) = {}
                    /\ BinDirOf(c) \notin PathEntries(env)
                    /\ c \in DOMAIN last.pre.profiles =>
                        /\ \A k \in DOMAIN last.pre.profiles[c].environment.variables :
                                k \notin DOMAIN env
                        /\ \A x \in ExpandedPaths(last.pre.env, last.pre.profiles[c].environment) :
                                x \notin PathEntries(env)

(* Reached: deactivate_current of a profile whose bin directory held links *)
(* and whose environment was applied.                                      *)
C18_Witness ==
    /\ last.op = "deactivate_current"
    /\ last.ok
    /\ last.pre.active_profile # None
    /\ Links(last.pre.bins, last.pre.active_profile[1]) # {}
    /\ BinDirOf(last.pre.active_profile[1]) \in PathEntries(last.pre.env)
    /\ "EDITOR" \in DOMAIN last.pre.env
    /\ active_profile = None

(* C19: switching to a profile that does not exist is rejected.            *)
(* switch_profile(new), of the state manager and of the switcher, with new *)
(* not a key of the registry returns an error, and the in-memory and the   *)
(* persisted pointer, the ledger, the registry, the bin directories and    *)
(* the shell-configuration marker are as before the call.                  *)
C19_SwitchToMissing ==
    ( /\ last.op \in {"switch_profile", "ProfileSwitcher::switch_profile"}
      /\ last.name \notin DOMAIN last.pre.profiles )
    => /\ ~last.ok
       /\ Mem = PreMem
       /\ disk = last.pre.disk
       /\ bins = last.pre.bins
       /\ shellrc = last.pre.shellrc

(* Reached: the switcher is asked for a missing profile while a profile is *)
(* active, and fails at step 2.                                            *)
C19_Witness ==
    /\ IsSwitch
    /\ last.name \notin DOMAIN last.pre.profiles
    /\ last.pre.active_profile # None
    /\ FailedStep = 2

(* C20: deleting the active profile is rejected.  A delete request naming  *)
(* the active profile of the loaded configuration returns an error and     *)
(* leaves registry, ledger, pointer and persisted snapshot as loaded; a    *)
(* delete request naming any other profile removes exactly that profile    *)
(* from the registry, in memory and in the snapshot.                       *)
C20_DeleteActiveRejected ==
    last.op = "delete_profile" =>
        IF last.pre.disk.active_profile = Some(last.name)
        THEN /\ ~last.ok
             /\ Mem = last.pre.disk
             /\ disk = last.pre.disk
        ELSE /\ last.ok
             /\ profiles = Del(last.pre.disk.profiles, last.name)
             /\ installations = last.pre.disk.installations
             /\ active_profile = last.pre.disk.active_profile
             /\ disk = Mem

(* Reached: a delete request for the active profile, which exists.         *)
C20_Witness ==
    /\ last.op = "delete_profile"
    /\ last.pre.active_profile = Some(last.name)
    /\ last.pre.disk.active_profile = Some(last.name)
    /\ last.name \in DOMAIN last.pre.disk.profiles
    /\ ~last.ok
    /\ last.name \in DOMAIN profiles

----------------------------------------------------------------------------
(* ShellConfigMarker on its own: update_shell_config applied to the shell  *)
(* startup files a user can have.  A file is a sequence of lines, each     *)
(* ended by a newline except possibly the last.                            *)

StartupLines == {"alias x=y", "# ZSHRCMAN_PROFILE: old", "echo # ZSHRCMAN_PROFILE: z"}

MaxLines == 2

StartupFiles ==
    {Join(ls, "\n") \o end :
        ls \in UNION {[1..n -> StartupLines] : n \in 0..MaxLines}, end \in {"", "\n"}}

InitMarker ==
    /\ disk = DefaultConfig
    /\ installations = disk.installations
    /\ profiles = disk.profiles
    /\ active_profile = disk.active_profile
    /\ env \in ShellEnvironments
    /\ bins = EmptyMap
    /\ dirs \in {HomeDirs, ShellDirs}
    /\ shellrc \in {EmptyMap}
            \cup {OneFile(ProfileSwitcher_get_shell_config_path(env)[1], c) : c \in StartupFiles}
    /\ \A p \in DOMAIN shellrc : path_parent(p) \in dirs
    /\ shell_type = detect_shell(env)
    /\ envfile = None
    /\ groups = DefaultGroups
    /\ groups_file = DefaultGroups
    /\ peer = NoPeer
    /\ shell_env = env
    /\ last = NoOp
    /\ nops = 0

UpdateShellConfig ==
    \E profile \in ProfileNames, fault \in {"none", "rc", "rcw"} :
        Return(update_shell_config(World(fault), profile),
               [NoOp EXCEPT !.op = "update_shell_config", !.name = profile, !.fault = fault])

NextMarker == UpdateShellConfig

SpecMarker == InitMarker /\ [][NextMarker]_vars

(* The lines of a file.                                                    *)
FileLines(content) ==
    IF content = "" THEN <<>>
    ELSE IF EndsWith(content, "\n") THEN Split(SubSeq(content, 1, Len(content) - 1), "\n")
    ELSE Split(content, "\n")

IsMarkerLine(line) == StartsWith(line, MarkerPrefix)

MarkerLine(name) == MarkerPrefix \o " " \o name

RECURSIVE WithoutFirstMarker(_)
(* The lines without the first one that starts with the marker prefix.     *)
WithoutFirstMarker(lines) ==
    IF lines = <<>> THEN <<>>
    ELSE IF IsMarkerLine(Head(lines)) THEN Tail(lines)
    ELSE <<Head(lines)>> \o WithoutFirstMarker(Tail(lines))

(* The startup file that the switcher marks under the environment `e`,     *)
(* among the startup files `files`: None when there is no such file.       *)
MarkerFileOf(files, e) ==
    LET shell_config == ProfileSwitcher_get_shell_config_path(e)
    IN  IF shell_config # None /\ shell_config[1] \in DOMAIN files
        THEN Some(files[shell_config[1]])
        ELSE None

MarkerFile == MarkerFileOf(shellrc, env)

PreMarkerFile == MarkerFileOf(last.pre.shellrc, last.pre.env)

(* The content of the startup file before the last operation.              *)
PreContent == IF PreMarkerFile = None THEN "" ELSE PreMarkerFile[1]

(* C22: exactly one marker line.  For every prior content of the startup   *)
(* file, after a successful update_shell_config(name) the file has exactly *)
(* one line that begins with "# ZSHRCMAN_PROFILE:", and that line is       *)
(* "# ZSHRCMAN_PROFILE: <name>".                                           *)
C22_ExactlyOneMarker ==
    (last.op = "update_shell_config" /\ last.ok) =>
        /\ MarkerFile # None
        /\ SelectSeq(FileLines(MarkerFile[1]), IsMarkerLine) = <<MarkerLine(last.name)>>

(* C23: marker update preserves other content.  After a successful         *)
(* update_shell_config(name) the lines of the file are the earlier lines   *)
(* without the first one that starts with the marker prefix, unmodified    *)
(* and in the same order, followed by the new marker as the last line.     *)
C23_OtherLinesKept ==
    (last.op = "update_shell_config" /\ last.ok) =>
        /\ MarkerFile # None
        /\ FileLines(MarkerFile[1])
             = WithoutFirstMarker(FileLines(PreContent)) \o <<MarkerLine(last.name)>>

----------------------------------------------------------------------------
(* C21: single valid active profile.  In every state reached by            *)
(* create_profile, switch_profile, profile delete, activate_profile and    *)
(* deactivate_current (and the package operations), the pointer, in memory *)
(* and in the snapshot, holds at most one profile name, and a name it      *)
(* holds is a key of the profile registry beside it.                       *)
C21_SingleValidActive ==
    /\ Len(active_profile) <= 1
    /\ active_profile # None => active_profile[1] \in DOMAIN profiles
    /\ Len(disk.active_profile) <= 1
    /\ disk.active_profile # None => disk.active_profile[1] \in DOMAIN disk.profiles

(* Reached: a profile is active and the other profile has just been        *)
(* deleted from the registry.                                              *)
C21_Witness ==
    /\ last.op = "delete_profile"
    /\ last.ok
    /\ last.name \in DOMAIN last.pre.disk.profiles
    /\ last.name \notin DOMAIN profiles
    /\ active_profile # None
    /\ active_profile[1] \in DOMAIN profiles

----------------------------------------------------------------------------
(* BinaryLinker on its own: update_active_binaries applied to the bin      *)
(* directories and configurations it can meet.                             *)

NodeRecord ==
    [NewInstallationRecord("nodejs", "work", "Global") EXCEPT
        !.active_for = {"work"}, !.location = Some("/usr/bin/node")]

(* git has a location; nodejs has a record with a location, a record       *)
(* without one, or no record.                                              *)
LinkerLedgers ==
    { [k \in {"git"} |-> [GitRecord EXCEPT !.active_for = {"work"}]],
      [k \in {"git", "nodejs"} |->
            IF k = "git" THEN [GitRecord EXCEPT !.active_for = {"work"}]
            ELSE NewInstallationRecord("nodejs", "work", "Global")],
      [k \in {"git", "nodejs"} |->
            IF k = "git" THEN [GitRecord EXCEPT !.active_for = {"work"}] ELSE NodeRecord] }

LinkerConfigs ==
    { [installations |-> inst,
       profiles |-> [k \in {"work"} |-> [NewProfile("work", None) EXCEPT !.packages = pk]],
       active_profile |-> Some("work")] :
        inst \in LinkerLedgers, pk \in SUBSET Packages }

(* What a bin directory can hold before the call: regular files, symlinks  *)
(* left by an earlier run, and directories.                                *)
OldEntries ==
    { [kind |-> "file", target |-> ""], [kind |-> "symlink", target |-> "/old/target"],
      [kind |-> "dir", target |-> ""] }

BinDirectories ==
    UNION {[names -> OldEntries] : names \in SUBSET {"git", "nodejs", "old"}}

InitLinker ==
    /\ disk \in LinkerConfigs
    /\ installations = disk.installations
    /\ profiles = disk.profiles
    /\ active_profile = disk.active_profile
    /\ env = EnvWithHome
    /\ \E dir \in BinDirectories : bins = [k \in {"work"} |-> dir]
    /\ shellrc = InitialShellrc
    /\ dirs = HomeDirs
    /\ shell_type = detect_shell(env)
    /\ envfile = None
    /\ groups = DefaultGroups
    /\ groups_file = DefaultGroups
    /\ peer = NoPeer
    /\ shell_env = env
    /\ last = NoOp
    /\ nops = 0

UpdateActiveBinaries ==
    \E profile \in ProfileNames, fault \in {"none", "bin"}, iter \in IterationOrders :
        Return(update_active_binaries(WorldIter(fault, iter), profile),
               [NoOp EXCEPT !.op = "update_active_binaries", !.name = profile, !.fault = fault])

NextLinker == UpdateActiveBinaries

SpecLinker == InitLinker /\ [][NextLinker]_vars

(* The packages of profile f that have a ledger record with a location.    *)
Located(inst, prof, f) ==
    {p \in PackagesOf(prof, f) : p \in DOMAIN inst /\ inst[p].location # None}

(* C24: BinaryLinker postcondition.  After update_active_binaries(profile) *)
(* succeeds, the file and symlink entries of the profile's bin directory   *)
(* are exactly one symlink per package of profiles[profile].packages whose *)
(* ledger record has a location, named after the package and pointing at   *)
(* that location; no earlier file or symlink remains, and a package        *)
(* without record or location has no link.                                 *)
C24_LinkerPostcondition ==
    (last.op = "update_active_binaries" /\ last.ok) =>
        /\ last.name \in DOMAIN bins
        /\ Links(bins, last.name)
             = Located(last.pre.installations, last.pre.profiles, last.name)
        /\ \A p \in Links(bins, last.name) :
                bins[last.name][p] =
                    [kind |-> "symlink", target |-> last.pre.installations[p].location[1]]
        /\ \A n \in DOMAIN bins[last.name] :
                n \notin Links(bins, last.name) =>
                    /\ n \in DOMAIN BinEntries(last.pre, last.name)
                    /\ bins[last.name][n] = last.pre.bins[last.name][n]

(* Reached: a relink of a directory that held a regular file, a stale      *)
(* symlink under a package's name and a directory, for a profile with one  *)
(* located package and one package without location.                       *)
C24_Witness ==
    /\ last.op = "update_active_binaries"
    /\ last.ok
    /\ last.name = "work"
    /\ last.pre.profiles["work"].packages = {"git", "nodejs"}
    /\ "nodejs" \in DOMAIN last.pre.installations
    /\ last.pre.installations["nodejs"].location = None
    /\ DOMAIN last.pre.bins["work"] = {"git", "nodejs", "old"}
    /\ last.pre.bins["work"]["git"] = [kind |-> "symlink", target |-> "/old/target"]
    /\ last.pre.bins["work"]["old"].kind = "file"
    /\ last.pre.bins["work"]["nodejs"].kind = "dir"
    /\ Links(bins, "work") = {"git"}
    /\ bins["work"]["git"].target = "/usr/bin/git"

----------------------------------------------------------------------------
(* EnvironmentProjector on its own: apply_profile_environment and          *)
(* clear_profile_environment applied to the environment description of a   *)
(* profile, from the PATH values a process can start with.                 *)

MaxPaths == 2

PrependPool == {"~/w", "/a"}

AppendPool == {"/opt/w", "$HOME/b"}

EnvironmentStates ==
    { [paths_prepend |-> pre, paths_append |-> app, variables |-> vs,
       aliases |-> EmptyMap, active |-> act] :
        pre \in UNION {[1..n -> PrependPool] : n \in 0..MaxPaths},
        app \in UNION {[1..n -> AppendPool] : n \in 0..MaxPaths},
        vs \in {EmptyMap, [k \in {"EDITOR"} |-> "vi"],
                [k \in {"EDITOR", "A=B"} |-> IF k = "EDITOR" THEN "vi" ELSE "x"]},
        act \in BOOLEAN }

InitialPaths == {"", "/usr/bin:/bin", "/usr/bin:/opt/work", "/h/w:/usr/bin:/opt/w:/opt/work"}

InitialEnvironments ==
    {[k \in {"PATH", "HOME"} |-> IF k = "PATH" THEN path ELSE HomeDir] : path \in InitialPaths}
    \cup {[k \in {"PATH"} |-> path] : path \in InitialPaths}

InitEnv ==
    /\ \E es \in EnvironmentStates :
            disk = [DefaultConfig EXCEPT !.profiles =
                        [k \in {"work"} |-> [NewProfile("work", None) EXCEPT !.environment = es]]]
    /\ installations = disk.installations
    /\ profiles = disk.profiles
    /\ active_profile = disk.active_profile
    /\ env \in InitialEnvironments
    /\ bins = EmptyMap
    /\ shellrc = InitialShellrc
    /\ dirs = HomeDirs
    /\ shell_type = detect_shell(env)
    /\ envfile = None
    /\ groups = DefaultGroups
    /\ groups_file = DefaultGroups
    /\ peer = NoPeer
    /\ shell_env = env
    /\ last = NoOp
    /\ nops = 0

(* The orders in which the variable map can iterate.                       *)
VariableOrders == {<<"EDITOR", "A=B", "HOME", "PATH">>, <<"PATH", "HOME", "A=B", "EDITOR">>}

ApplyEnvironment ==
    \E order \in VariableOrders :
    Return(apply_profile_environment([World("none") EXCEPT !.hash_order = order],
                                     profiles["work"].environment),
           [NoOp EXCEPT !.op = "apply_profile_environment",
                        !.state = profiles["work"].environment,
                        !.prior = PriorCall])

ClearEnvironment ==
    \E order \in VariableOrders :
    Return(clear_profile_environment([World("none") EXCEPT !.hash_order = order],
                                     profiles["work"].environment),
           [NoOp EXCEPT !.op = "clear_profile_environment",
                        !.state = profiles["work"].environment,
                        !.prior = PriorCall])

NextEnv ==
    \/ ApplyEnvironment
    \/ ClearEnvironment

SpecEnv == InitEnv /\ [][NextEnv]_vars

IsApply == last.op = "apply_profile_environment"

IsClear == last.op = "clear_profile_environment"

(* PATH before and after the last operation.                               *)
PathBefore == VarOrDefault(last.pre.env, "PATH")

PathAfter == VarOrDefault(env, "PATH")

(* The expanded prepend and append paths of the state the last operation   *)
(* was given, in listed order (the operation succeeded, so each expands).  *)
ExpandedPrepend ==
    [i \in 1..Len(last.state.paths_prepend) |->
        expand_path(last.pre.env, last.state.paths_prepend[i])[1]]

ExpandedAppend ==
    [i \in 1..Len(last.state.paths_append) |->
        expand_path(last.pre.env, last.state.paths_append[i])[1]]

ExpandedAll == ExpandedPrepend \o ExpandedAppend

Range(seq) == {seq[i] : i \in 1..Len(seq)}

(* C25: apply is gated by the active flag.  apply_profile_environment of a *)
(* state with active = false changes neither PATH nor any variable and     *)
(* returns success.                                                        *)
C25_InactiveNoOp ==
    (IsApply /\ ~last.state.active) =>
        /\ last.ok
        /\ env = last.pre.env

(* Reached: apply of an inactive state that lists a path that is not in    *)
(* PATH and a variable that is not set.                                    *)
C25_Witness ==
    /\ IsApply
    /\ ~last.state.active
    /\ last.state.paths_prepend # <<>>
    /\ last.state.paths_append # <<>>
    /\ "EDITOR" \in DOMAIN last.state.variables
    /\ "EDITOR" \notin DOMAIN last.pre.env
    /\ "HOME" \in DOMAIN last.pre.env
    /\ \A x \in Range(ExpandedAll) : ~Contains(PathBefore, x)

(* No listed path occurs in the earlier PATH, and the listed paths are     *)
(* pairwise unrelated.                                                     *)
AllNew ==
    /\ \A x \in Range(ExpandedAll) : ~Contains(PathBefore, x)
    /\ \A i, j \in 1..Len(ExpandedAll) : i # j => ~Contains(ExpandedAll[i], ExpandedAll[j])

(* C26: PATH order after apply.  For an active state with prepend list     *)
(* a1..an and append list b1..bm, none of them already in PATH, apply      *)
(* gives PATH = a1, .., an in listed order, then the earlier PATH, then    *)
(* b1, .., bm in listed order.                                             *)
C26_PathOrder ==
    (IsApply /\ last.ok /\ last.state.active /\ AllNew) =>
        PathAfter = Join(ExpandedPrepend \o <<PathBefore>> \o ExpandedAppend, ":")

(* C27: every path is present after apply.  For an active state and any    *)
(* earlier PATH, after a successful apply each expanded prepend and append *)
(* path is one of the colon-separated entries of PATH, and applying the    *)
(* state once more leaves PATH as it is.                                   *)
C27_EveryPathPresent ==
    (IsApply /\ last.ok /\ last.state.active) =>
        /\ \A x \in Range(ExpandedAll) : x \in PathEntries(env)
        /\ apply_profile_environment(World("none"), last.state).env = env

(* C28: reverse removes by exact match.  After a successful                *)
(* clear_profile_environment, PATH is the earlier entries without those    *)
(* equal to an expanded prepend or append path, in their earlier order;    *)
(* an entry that only contains such a path stays.                          *)
C28_ExactMatch ==
    (IsClear /\ last.ok) =>
        PathAfter = Join(SelectSeq(Split(PathBefore, ":"),
                                   LAMBDA x : x \notin Range(ExpandedAll)), ":")

(* Reached: a reverse that removed two entries and kept an entry that      *)
(* contains one of the removed paths.                                      *)
C28_Witness ==
    /\ IsClear
    /\ last.ok
    /\ PathBefore = "/h/w:/usr/bin:/opt/w:/opt/work"
    /\ Range(ExpandedAll) = {"/h/w", "/opt/w"}
    /\ PathAfter = "/usr/bin:/opt/work"

(* The same two operations on environment descriptions whose variables    *)
(* name HOME or PATH themselves: apply then sets them after it has changed *)
(* PATH, and the reverse expands under the HOME it finds and removes the   *)
(* variable PATH.                                                          *)
RestoreVariables ==
    {EmptyMap, [k \in {"EDITOR"} |-> "vi"], [k \in {"HOME"} |-> "/x"],
     [k \in {"PATH"} |-> "/z"],
     [k \in {"HOME", "PATH"} |-> IF k = "HOME" THEN "/x" ELSE "/z"]}

RestoreStates ==
    {[es EXCEPT !.variables = vs] : es \in EnvironmentStates, vs \in RestoreVariables}

InitRestore ==
    /\ \E es \in RestoreStates :
            disk = [DefaultConfig EXCEPT !.profiles =
                        [k \in {"work"} |-> [NewProfile("work", None) EXCEPT !.environment = es]]]
    /\ installations = disk.installations
    /\ profiles = disk.profiles
    /\ active_profile = disk.active_profile
    /\ env \in InitialEnvironments
    /\ bins = EmptyMap
    /\ shellrc = InitialShellrc
    /\ dirs = HomeDirs
    /\ shell_type = detect_shell(env)
    /\ envfile = None
    /\ groups = DefaultGroups
    /\ groups_file = DefaultGroups
    /\ peer = NoPeer
    /\ shell_env = env
    /\ last = NoOp
    /\ nops = 0

SpecRestore == InitRestore /\ [][NextEnv]_vars

(* The last call is a successful clear_profile_environment(state) that     *)
(* follows a successful apply_profile_environment(state).                  *)
IsClearAfterApply ==
    /\ IsClear
    /\ last.ok
    /\ last.prior.op = "apply_profile_environment"
    /\ last.prior.ok

(* The entries of the PATH the apply started from.                         *)
EntriesBeforeApply == Split(last.prior.path, ":")

(* C38 as stated: apply followed by reverse restores PATH.  After          *)
(* apply_profile_environment(state) and then                               *)
(* clear_profile_environment(state), PATH has the entries it had before    *)
(* the apply, in the same order, for every state and every earlier PATH.   *)
C38_ApplyClearRestores ==
    IsClearAfterApply => Split(PathAfter, ":") = EntriesBeforeApply

(* The variables of the state of the last call name PATH or HOME.          *)
SetsPathOrHome == DOMAIN last.state.variables \cap {"PATH", "HOME"} # {}

(* C38: apply followed by reverse restores PATH when no listed path, once  *)
(* expanded, was an entry of PATH before the apply and the variables of    *)
(* the state name neither PATH nor HOME; this holds for active and         *)
(* inactive states.                                                        *)
C38_ApplyClearRestoresNew ==
    (/\ IsClearAfterApply
     /\ ~SetsPathOrHome
     /\ \A x \in Range(ExpandedAll) : x \notin Range(EntriesBeforeApply)) =>
        Split(PathAfter, ":") = EntriesBeforeApply

(* Without the condition on the variables the statement fails: a state     *)
(* that sets HOME leaves the path expanded under the earlier HOME on PATH, *)
(* a state that sets PATH leaves PATH unset.                               *)
RestoresWhateverVariables ==
    (IsClearAfterApply /\ \A x \in Range(ExpandedAll) : x \notin Range(EntriesBeforeApply)) =>
        Split(PathAfter, ":") = EntriesBeforeApply

(* Reached: an active state with a variable, a prepend and an append path, *)
(* none an entry of the earlier PATH (one is a prefix of an entry),        *)
(* applied and then reversed: the apply changed PATH and the reverse undid *)
(* it.                                                                     *)
C38_Witness ==
    /\ IsClearAfterApply
    /\ last.state.active
    /\ last.state.variables = [k \in {"EDITOR"} |-> "vi"]
    /\ last.state.paths_prepend = <<"~/w">>
    /\ last.state.paths_append = <<"/opt/w", "$HOME/b">>
    /\ last.prior.path = "/usr/bin:/opt/work"
    /\ PathBefore = "/h/w:/usr/bin:/opt/work:/h/b"
    /\ PathAfter = "/usr/bin:/opt/work"

----------------------------------------------------------------------------
(* Two invocations of the tool on one configuration file.  Both have built *)
(* their state manager from the file before either saves; the first works  *)
(* on installations / profiles / active_profile, the second on peer.mem.   *)
(* The steps of an invocation are its state-manager operations, each       *)
(* ending in save_state; the file is not locked.                           *)

InitRace ==
    /\ disk \in {DefaultConfig, ManualConfig, SeededConfig}
    /\ installations = disk.installations
    /\ profiles = disk.profiles
    /\ active_profile = disk.active_profile
    /\ env = EnvWithHome
    /\ bins = EmptyMap
    /\ shellrc = InitialShellrc
    /\ dirs = HomeDirs
    /\ shell_type = detect_shell(env)
    /\ envfile = None
    /\ groups = DefaultGroups
    /\ groups_file = DefaultGroups
    /\ peer = [loaded |-> TRUE, mem |-> disk]
    /\ shell_env = env
    /\ last = NoOp
    /\ nops = 0

(* The world an operation of the second invocation starts in.              *)
PeerWorld(fault) ==
    [installations |-> peer.mem.installations, profiles |-> peer.mem.profiles,
     active_profile |-> peer.mem.active_profile, disk |-> disk, env |-> env,
     bins |-> bins, shellrc |-> shellrc, dirs |-> dirs, shell_type |-> shell_type,
     envfile |-> envfile, groups |-> groups, groups_file |-> groups_file,
     err |-> FALSE, panic |-> FALSE, hash_order |-> VariableOrder,
     set_order |-> DefaultSetOrder, nsaves |-> 0,
     fault |-> fault, trace |-> <<>>, iter |-> <<"git", "nodejs">>]

(* An operation of the second invocation returns.                          *)
PeerReturn(w, call) ==
    /\ nops < MaxOps
    /\ nops' = nops + 1
    /\ peer' = [peer EXCEPT !.mem = Snapshot(w)]
    /\ disk' = w.disk
    /\ groups_file' = w.groups_file
    /\ UNCHANGED <<installations, profiles, active_profile, env, shell_env, bins,
                   shellrc, dirs, shell_type, envfile, groups>>
    /\ last' = [call EXCEPT !.ok = ~w.err, !.trace = w.trace, !.pre = Pre,
                            !.saves = w.nsaves, !.who = "peer"]

PeerCreateProfile ==
    \E name \in ProfileNames :
        PeerReturn(create_profile(PeerWorld("none"), name, None),
                   [NoOp EXCEPT !.op = "create_profile", !.name = name])

PeerSwitchProfile ==
    \E name \in ProfileNames :
        PeerReturn(switch_profile(PeerWorld("none"), name),
                   [NoOp EXCEPT !.op = "switch_profile", !.name = name])

PeerSmartInstall ==
    \E package \in Packages :
        PeerReturn(smart_install(PeerWorld("none"), package, "Global"),
                   [NoOp EXCEPT !.op = "smart_install", !.pkg = package, !.scope = "Global"])

PeerHandleRemoval ==
    \E package \in Packages, strategy \in Strategies :
        PeerReturn(handle_removal(PeerWorld("none"), package, strategy),
                   [NoOp EXCEPT !.op = "handle_removal", !.pkg = package,
                                !.strategy = strategy])

NextRace ==
    \/ CreateProfile
    \/ SwitchProfile
    \/ SmartInstall
    \/ HandleRemoval
    \/ PeerCreateProfile
    \/ PeerSwitchProfile
    \/ PeerSmartInstall
    \/ PeerHandleRemoval

SpecRace == InitRace /\ [][NextRace]_vars

(* C29: last writer wins.  When both invocations have loaded the snapshot  *)
(* before either saves, after an operation that saved successfully the     *)
(* persisted snapshot is exactly the in-memory ledger, registry and        *)
(* pointer of the invocation that ran it: what the other invocation saved  *)
(* before is overwritten, not merged.                                      *)
C29_LastWriterWins ==
    (last.op # "init" /\ last.ok /\ last.saves >= 1) =>
        disk = IF last.who = "peer" THEN peer.mem ELSE Mem

(* Reached: the first invocation created a profile and saved, then the     *)
(* second invocation saved: the profile is in the first invocation's       *)
(* memory and not in the file.                                             *)
C29_Witness ==
    /\ last.who = "peer"
    /\ last.ok
    /\ last.saves >= 1
    /\ last.pre.disk = PreMem
    /\ disk = peer.mem
    /\ \E f \in DOMAIN profiles : f \notin DOMAIN last.pre.disk.profiles \cap DOMAIN disk.profiles
    /\ \E f \in DOMAIN last.pre.disk.profiles : f \notin DOMAIN disk.profiles

----------------------------------------------------------------------------
(* The state-manager operations under a failing write of the configuration *)
(* file: the first or the second save of the call fails, at the open of    *)
(* the file, which stays as it was, or at the write, which leaves it       *)
(* empty.                                                                  *)

SaveFaults == {"none", "save1", "save2", "save1w", "save2w"}

InitPersist ==
    /\ \E i \in InitialStates : disk = i[1] /\ env = i[2]
    /\ installations = disk.installations
    /\ profiles = disk.profiles
    /\ active_profile = disk.active_profile
    /\ bins = EmptyMap
    /\ shellrc = InitialShellrc
    /\ dirs = HomeDirs
    /\ shell_type = detect_shell(env)
    /\ envfile = None
    /\ groups = DefaultGroups
    /\ groups_file = DefaultGroups
    /\ peer = NoPeer
    /\ shell_env = env
    /\ last = NoOp
    /\ nops = 0

FaultyCreateProfile ==
    \E name \in ProfileNames, fault \in SaveFaults :
        Return(create_profile(World(fault), name, None),
               [NoOp EXCEPT !.op = "create_profile", !.name = name, !.fault = fault])

FaultySwitchProfile ==
    \E name \in ProfileNames, fault \in SaveFaults :
        Return(switch_profile(World(fault), name),
               [NoOp EXCEPT !.op = "switch_profile", !.name = name, !.fault = fault])

FaultySmartInstall ==
    \E package \in Packages, fault \in SaveFaults :
        Return(smart_install(World(fault), package, "Global"),
               [NoOp EXCEPT !.op = "smart_install", !.pkg = package,
                            !.scope = "Global", !.fault = fault])

FaultyHandleRemoval ==
    \E package \in Packages, strategy \in Strategies, fault \in SaveFaults :
        Return(handle_removal(World(fault), package, strategy),
               [NoOp EXCEPT !.op = "handle_removal", !.pkg = package,
                            !.strategy = strategy, !.fault = fault])

NextPersist ==
    \/ FaultyCreateProfile
    \/ FaultySwitchProfile
    \/ FaultySmartInstall
    \/ FaultyHandleRemoval

SpecPersist == InitPersist /\ [][NextPersist]_vars

(* The last call reached a save that could not write the file.             *)
FirstSaveFailed == last.fault \in {"save1", "save1w"} /\ last.saves >= 1
SecondSaveFailed == last.fault \in {"save2", "save2w"} /\ last.saves >= 2

(* The memory of the last call's start with `package` out of the active    *)
(* profile's package set.                                                  *)
PreMemWithoutListed(package) ==
    IF last.pre.active_profile # None /\ last.pre.active_profile[1] \in DOMAIN last.pre.profiles
    THEN [PreMem EXCEPT !.profiles[last.pre.active_profile[1]].packages = @ \ {package}]
    ELSE PreMem

(* C30: a failing save propagates and aborts.  The operation returns the   *)
(* failure; no save is attempted after the failed one (nothing is retried, *)
(* no later sub-step saves); the file holds the snapshot from before the   *)
(* failed save: the one of the call's start when the first save fails, the *)
(* one written by the first save when the second fails; and the sub-step   *)
(* after the failed save has not touched memory: ForceRemove leaves every  *)
(* profile's package set alone, RemoveFromProfile leaves the ledger alone. *)
C30_SaveFailureAborts ==
    /\ FirstSaveFailed =>
          /\ ~last.ok
          /\ last.saves = 1
          /\ disk = last.pre.disk
          /\ (last.op = "handle_removal" /\ last.strategy = "ForceRemove") =>
                /\ profiles = last.pre.profiles
                /\ installations = Del(last.pre.installations, last.pkg)
          /\ (last.op = "handle_removal" /\ last.strategy = "RemoveFromProfile") =>
                installations = last.pre.installations
    /\ SecondSaveFailed =>
          /\ ~last.ok
          /\ last.saves = 2
          /\ last.op = "handle_removal"
          /\ last.strategy \in {"ForceRemove", "RemoveFromProfile"}
          /\ last.strategy = "ForceRemove" =>
                disk = [PreMem EXCEPT !.installations = Del(@, last.pkg)]
          /\ last.strategy = "RemoveFromProfile" =>
                disk = PreMemWithoutListed(last.pkg)

----------------------------------------------------------------------------
(* C31: create_profile(name, parent) succeeds whether or not a profile     *)
(* named parent exists; afterwards profiles[name] is registered with the   *)
(* parent value as given and an empty package set; and the packages read   *)
(* for a profile are its own set, whatever its parent lists.               *)
C31_ParentStored ==
    /\ last.op = "create_profile" =>
          /\ last.ok
          /\ last.name \in DOMAIN profiles
          /\ profiles[last.name].parent = last.parent
          /\ profiles[last.name].packages = {}
          /\ disk.profiles = profiles
    /\ \A f \in DOMAIN profiles :
          get_active_packages(World("none"), f) = profiles[f].packages

(* Reached: a profile created with a parent that is not registered.        *)
C31_Witness ==
    /\ last.op = "create_profile"
    /\ last.ok
    /\ last.parent = Some("work")
    /\ "work" \notin DOMAIN profiles
    /\ profiles[last.name].parent = Some("work")

----------------------------------------------------------------------------
(* EnvironmentManager::write_shell_config on the environment of profile    *)
(* work, for every shell kind, over startup files that hold none, one or   *)
(* a commented-out copy of the source line.                                *)

ShellTypes == {"Zsh", "Bash", "Fish", "PowerShell", "Cmd"}

(* The shell kinds EnvironmentManager::new can detect in an environment:   *)
(* by SHELL on a platform other than Windows, and PowerShell or Cmd (by    *)
(* PSModulePath) on Windows.                                               *)
BuildShells(e) == {detect_shell(e), "PowerShell", "Cmd"}

(* The process environments of the runs: zsh with and without HOME, bash   *)
(* and fish.                                                               *)
SourceProcesses ==
    {EnvWithHome, EnvWithoutHome, Put(EnvWithHome, "SHELL", "/bin/bash"),
     Put(EnvWithHome, "SHELL", "/usr/bin/fish")}

(* The orders in which the keys of a map can iterate.                      *)
HashOrders == {<<"EDITOR", "LANG", "ll", "gs">>, <<"gs", "ll", "LANG", "EDITOR">>}

(* The variable map and the alias map are two HashMaps, each iterating in  *)
(* an order of its own.                                                    *)
KeyOrders == [variables : HashOrders, aliases : HashOrders]

(* The source line this run writes; a batch shell has none.                *)
SourceLineOf(shell, e) ==
    IF shell = "Cmd" THEN "REM no source line"
    ELSE source_line(shell, get_profile_env_path(e))

SourceFileLines(shell, e) ==
    {"alias x=y", SourceLineOf(shell, e), "# " \o SourceLineOf(shell, e)}

SourceFiles(shell, e) ==
    {Join(ls, "\n") \o end :
        ls \in UNION {[1..n -> SourceFileLines(shell, e)] : n \in 0..MaxLines},
        end \in {"", "\n"}}

SourceEnvironments ==
    {DefaultEnvironmentState,
     [DefaultEnvironmentState EXCEPT !.paths_prepend = <<"~/w">>,
                                     !.variables = [k \in {"EDITOR"} |-> "vi"]]}

ProfileWith(e) ==
    [k \in {"work"} |-> [NewProfile("work", None) EXCEPT !.environment = e]]

InitSource ==
    /\ \E e \in SourceEnvironments :
          disk = [DefaultConfig EXCEPT !.profiles = ProfileWith(e)]
    /\ installations = disk.installations
    /\ profiles = disk.profiles
    /\ active_profile = disk.active_profile
    /\ env \in SourceProcesses
    /\ bins = EmptyMap
    /\ shell_type \in BuildShells(env)
    /\ dirs \in {HomeDirs, ShellDirs}
    /\ shellrc \in {EmptyMap}
            \cup {OneFile(get_shell_config_path(shell_type, env), c) :
                    c \in SourceFiles(shell_type, env)}
    /\ \A p \in DOMAIN shellrc : path_parent(p) \in dirs
    /\ envfile = None
    /\ groups = DefaultGroups
    /\ groups_file = DefaultGroups
    /\ peer = NoPeer
    /\ shell_env = env
    /\ last = NoOp
    /\ nops = 0

WriteShellConfig ==
    \E order \in KeyOrders, fault \in {"none", "rc", "rcw", "env", "envw"} :
        Return(write_shell_config(World(fault), profiles["work"].environment, order),
               [NoOp EXCEPT !.op = "write_shell_config",
                            !.state = profiles["work"].environment, !.fault = fault])

NextShellConfig == WriteShellConfig

SpecSource == InitSource /\ [][NextShellConfig]_vars

IsWrite == last.op = "write_shell_config" /\ last.ok

(* The startup file of the shell of the run, now and before the last call. *)
SourceFile ==
    IF get_shell_config_path(shell_type, env) \in DOMAIN shellrc
    THEN Some(shellrc[get_shell_config_path(shell_type, env)])
    ELSE None

PreSourceFile ==
    IF get_shell_config_path(shell_type, env) \in DOMAIN last.pre.shellrc
    THEN Some(last.pre.shellrc[get_shell_config_path(shell_type, env)])
    ELSE None

(* How many lines of a file are exactly `line`.                            *)
LineCount(content, line) == Len(SelectSeq(FileLines(content), LAMBDA l : l = line))

(* C32: idempotent source line.  After one or more successful              *)
(* write_shell_config calls for a shell that has a startup file, exactly   *)
(* one line of the startup file is the source line; and a call made when   *)
(* a line of the file already is the source line leaves the file as it is. *)
C32_SourceLineOnce ==
    (IsWrite /\ shell_type # "Cmd") =>
        /\ SourceFile # None
        /\ LineCount(SourceFile[1], SourceLineOf(shell_type, env)) = 1
        /\ (PreSourceFile # None
            /\ LineCount(PreSourceFile[1], SourceLineOf(shell_type, env)) >= 1) =>
                shellrc = last.pre.shellrc

----------------------------------------------------------------------------
(* The rendered script, for every shell kind and for environments with up  *)
(* to MaxPaths paths on each side, up to two variables and two aliases.    *)

VariableMap == [k \in {"EDITOR", "LANG"} |-> IF k = "EDITOR" THEN "vi" ELSE "en_US"]

AliasMap == [k \in {"ll", "gs"} |-> IF k = "ll" THEN "ls -l" ELSE "git status"]

(* A map restricted to some of its keys.                                   *)
Restrict(map, keys) == [k \in keys |-> map[k]]

(* The variable and alias maps of the rendered environments: none, one or  *)
(* two entries on either side.                                             *)
MapPairs ==
    { <<Restrict(VariableMap, vk), Restrict(AliasMap, ak)>> :
        vk \in {{}, {"EDITOR", "LANG"}}, ak \in {{}, {"ll", "gs"}} }
    \cup { <<Restrict(VariableMap, {"EDITOR"}), Restrict(AliasMap, {"ll"})>> }

RenderedEnvironments ==
    { [paths_prepend |-> pre, paths_append |-> app, variables |-> m[1],
       aliases |-> m[2], active |-> TRUE] :
        pre \in UNION {[1..n -> PrependPool] : n \in 0..MaxPaths},
        app \in UNION {[1..n -> AppendPool] : n \in 0..MaxPaths},
        m \in MapPairs }

(* The environment and the shell kind of a run: zsh, bash and fish by      *)
(* SHELL, PowerShell and Cmd on Windows.                                   *)
RenderBuilds ==
    {<<Put(EnvWithHome, "SHELL", s), detect_shell(Put(EnvWithHome, "SHELL", s))>> :
        s \in {"/bin/zsh", "/bin/bash", "/usr/bin/fish"}}
        \cup {<<EnvWithHome, s>> : s \in {"PowerShell", "Cmd"}}

InitRender ==
    /\ \E e \in RenderedEnvironments :
          disk = [DefaultConfig EXCEPT !.profiles = ProfileWith(e)]
    /\ installations = disk.installations
    /\ profiles = disk.profiles
    /\ active_profile = disk.active_profile
    /\ \E build \in RenderBuilds : env = build[1] /\ shell_type = build[2]
    /\ bins = EmptyMap
    /\ dirs = ShellDirs
    /\ shellrc = EmptyMap
    /\ envfile = None
    /\ groups = DefaultGroups
    /\ groups_file = DefaultGroups
    /\ peer = NoPeer
    /\ shell_env = env
    /\ last = NoOp
    /\ nops = 0

(* write_shell_config with every write succeeding.                         *)
RenderShellConfig ==
    \E order \in KeyOrders :
        Return(write_shell_config(World("none"), profiles["work"].environment, order),
               [NoOp EXCEPT !.op = "write_shell_config",
                            !.state = profiles["work"].environment])

NextRender == RenderShellConfig

SpecRender == InitRender /\ [][NextRender]_vars

(* The positions of the text at which `x` occurs.                          *)
Occurrences(text, x) ==
    {i \in 1..(Len(text) - Len(x) + 1) : SubSeq(text, i, i + Len(x) - 1) = x}

(* How often `x` is listed in a sequence.                                  *)
Listed(seq, x) == Cardinality({i \in DOMAIN seq : seq[i] = x})

(* The number of the line that holds position i of a text whose newlines   *)
(* are at the positions nl, and the position at which that line starts.    *)
LineOf(nl, i) == 1 + Cardinality({n \in nl : n < i})
LineStart(nl, i) == 1 + Cardinality({k \in 1..(i - 1) : \E n \in nl : k <= n /\ n < i})

(* The positions at which a name of `names` occurs, and their lines.       *)
Mentions(text, names) == UNION {Occurrences(text, x) : x \in names}
MentionLines(text, nl, names) == {LineOf(nl, i) : i \in Mentions(text, names)}

(* The empty lines: a newline at the start or right after a newline.       *)
BlankLinesOf(nl) == {LineOf(nl, n) : n \in {m \in nl : m = 1 \/ (m - 1) \in nl}}

(* Every member of `earlier` is below every member of `later`.             *)
AllBefore(earlier, later) == \A i \in earlier, j \in later : i < j

(* The section structure of a rendered text: pl, vl, al and bl are the     *)
(* lines that mention a path, a variable, an alias, and the blank lines.   *)
Sections(pl, vl, al, bl) ==
    /\ AllBefore(pl, vl \cup al)
    /\ AllBefore(vl, al)
    /\ pl # {} => \E b \in bl : AllBefore(pl, {b}) /\ AllBefore({b}, vl \cup al)
    /\ vl # {} => \E b \in bl : AllBefore(vl, {b}) /\ AllBefore({b}, al)
    /\ Cardinality(bl) = 1 + (IF pl # {} THEN 1 ELSE 0) + (IF vl # {} THEN 1 ELSE 0)

ListedPaths == Range(last.state.paths_prepend) \cup Range(last.state.paths_append)

(* C33: section order of the rendered text.  For every shell kind and      *)
(* every environment: each listed path is emitted as often as it is        *)
(* listed, all prepend output before all append output; a blank line       *)
(* follows the paths if and only if there is a path; then one line per     *)
(* variable, followed by a blank line if and only if there is a variable;  *)
(* then one line per alias; the batch target renders each alias on a REM   *)
(* line only.                                                              *)
C33_SectionOrder ==
    IsWrite =>
        /\ envfile # None
        /\ \E text \in {envfile[1]} : \E nl \in {Occurrences(text, "\n")} :
              /\ \A p \in PrependPool \cup AppendPool :
                    Cardinality(Occurrences(text, p))
                        = Listed(last.state.paths_prepend \o last.state.paths_append, p)
              /\ AllBefore(Mentions(text, Range(last.state.paths_prepend)),
                           Mentions(text, Range(last.state.paths_append)))
              /\ \A k \in DOMAIN last.state.variables \cup DOMAIN last.state.aliases :
                    Cardinality(Occurrences(text, k)) = 1
              /\ Sections(MentionLines(text, nl, ListedPaths),
                          MentionLines(text, nl, DOMAIN last.state.variables),
                          MentionLines(text, nl, DOMAIN last.state.aliases),
                          BlankLinesOf(nl))
              /\ shell_type = "Cmd" =>
                    \A i \in Mentions(text, DOMAIN last.state.aliases) :
                        SubSeq(text, LineStart(nl, i), LineStart(nl, i) + 3) = "REM "

(* Reached: a batch script rendered for an environment with two paths in   *)
(* front, a path behind, two variables and two aliases.                    *)
C33_Witness ==
    /\ IsWrite
    /\ shell_type = "Cmd"
    /\ Len(last.state.paths_prepend) >= 2
    /\ last.state.paths_append # <<>>
    /\ Cardinality(DOMAIN last.state.variables) = 2
    /\ Cardinality(DOMAIN last.state.aliases) = 2
    /\ envfile # None
    /\ Cardinality(BlankLinesOf(Occurrences(envfile[1], "\n"))) = 3

----------------------------------------------------------------------------
(* The state manager saved and built again from the file: a run may end    *)
(* with memory ahead of the file (a save failed), save_state writes the    *)
(* whole memory, InstallationStateManager::new reads it back.              *)

(* A configuration edited by hand: the profile work carries overrides for *)
(* two operating systems, one with an environment of its own, and the      *)
(* records carry timestamps with a fraction of three and of six digits.    *)
ArchivedConfig ==
    [SeededConfig EXCEPT
        !.installations["git"].installed_at = Timestamp("2023-11-30T08:15:00", 500000000),
        !.installations["nodejs"].installed_at = Timestamp("2024-02-29T23:59:59", 123456000),
        !.installations["nodejs"].version = Some("20.1"),
        !.profiles["work"].os_overrides =
            [os \in {<<"Linux">>, <<"MacOS">>} |->
                IF os = <<"Linux">> THEN [packages |-> <<"git">>, environment |-> None]
                ELSE [packages |-> <<>>, environment |-> Some(WorkEnvironment)]]]

InitRoundTrip ==
    /\ disk \in {DefaultConfig, ManualConfig, SeededConfig, ArchivedConfig}
    /\ installations = disk.installations
    /\ profiles = disk.profiles
    /\ active_profile = disk.active_profile
    /\ env = EnvWithHome
    /\ bins = EmptyMap
    /\ shellrc = InitialShellrc
    /\ dirs = HomeDirs
    /\ shell_type = detect_shell(env)
    /\ envfile = None
    /\ groups = DefaultGroups
    /\ groups_file = DefaultGroups
    /\ peer = NoPeer
    /\ shell_env = env
    /\ last = NoOp
    /\ nops = 0

(* The orders in which the members of a set can be listed.                 *)
ListingOrders(S) ==
    {s \in [1..Cardinality(S) -> S] : \A x \in S : \E i \in DOMAIN s : s[i] = x}

(* One order for each of the sets sets[k], k in DOMAIN sets.               *)
OrdersOfEach(sets) ==
    {o \in [DOMAIN sets -> UNION {ListingOrders(sets[k]) : k \in DOMAIN sets}] :
        \A k \in DOMAIN sets : o[k] \in ListingOrders(sets[k])}

(* The orders in which the HashSets of the manager can iterate when they   *)
(* are written: every package set and every active_for set in an order of  *)
(* its own, whatever the order of the others.                              *)
SetOrders ==
    [packages : OrdersOfEach([f \in DOMAIN profiles |-> profiles[f].packages]),
     active_for : OrdersOfEach([p \in DOMAIN installations |-> installations[p].active_for])]

(* save_state of the manager of the run; the save succeeds or fails before *)
(* the file is opened, where the order of the sets decides nothing.        *)
SaveState ==
    \E fault \in {"none", "save1"} :
      \E orders \in IF fault = "none" THEN SetOrders ELSE {DefaultSetOrder} :
        Return(save_state([World(fault) EXCEPT !.set_order = orders]),
               [NoOp EXCEPT !.op = "save_state", !.fault = fault])

NextRoundTrip ==
    \/ SaveState
    \/ NewStateManager
    \/ FaultyCreateProfile
    \/ FaultySwitchProfile
    \/ FaultySmartInstall
    \/ FaultyHandleRemoval

SpecRoundTrip == InitRoundTrip /\ [][NextRoundTrip]_vars

(* C34: snapshot round trip.  A successful save_state leaves the manager   *)
(* as it was, and the state manager a new process builds from the file it  *)
(* wrote has the ledger, the registry and the pointer that were saved,     *)
(* whatever the order the sets were written in: both when it is built in   *)
(* the state after the save and when it is the next step of the run.       *)
C34_RoundTrip ==
    /\ (last.op = "save_state" /\ last.ok) =>
          /\ Mem = PreMem
          /\ Snapshot(NewProcess("none")) = Mem
    /\ (last.op = "new" /\ last.prior.op = "save_state" /\ last.prior.ok) =>
          Mem = PreMem

(* Reached: a save that changed the file, of a memory with a record that   *)
(* has a location and no version, records whose timestamps have a fraction *)
(* of three and of six digits, a profile with a parent, one without, one   *)
(* with overrides with and without an environment, and a profile active.   *)
C34_Witness ==
    /\ last.op = "save_state"
    /\ last.ok
    /\ disk # last.pre.disk
    /\ Snapshot(NewProcess("none")) = Mem
    /\ active_profile # None
    /\ \E p \in DOMAIN installations :
          installations[p].location # None /\ installations[p].version = None
    /\ \E p \in DOMAIN installations : installations[p].installed_at.nanos = 500000000
    /\ \E p \in DOMAIN installations : installations[p].installed_at.nanos = 123456000
    /\ \E f \in DOMAIN profiles : profiles[f].parent # None
    /\ \E f \in DOMAIN profiles :
          /\ profiles[f].parent = None
          /\ \E os \in DOMAIN profiles[f].os_overrides :
                profiles[f].os_overrides[os].environment # None
          /\ \E os \in DOMAIN profiles[f].os_overrides :
                profiles[f].os_overrides[os].environment = None

(* Reached: a state manager built right after a successful save of a       *)
(* memory with overrides and timestamps.                                   *)
C34_Reloaded ==
    /\ last.op = "new"
    /\ last.prior.op = "save_state"
    /\ last.prior.ok
    /\ \E f \in DOMAIN profiles : profiles[f].os_overrides # EmptyMap
    /\ \E p \in DOMAIN installations : installations[p].installed_at.nanos # 0

----------------------------------------------------------------------------
(* Sequences of successful calls of the three transitions of the switcher: *)
(* a call that returns an error is not part of such a sequence.            *)

SwitchSucceeds == SwitcherSwitch /\ last'.ok

ActivateSucceeds == SwitcherActivate /\ last'.ok

DeactivateSucceeds == SwitcherDeactivate /\ last'.ok

NextSwitcher ==
    \/ SwitchSucceeds
    \/ ActivateSucceeds
    \/ DeactivateSucceeds

(* The switcher starts with or without a startup file of zsh, under zsh,   *)
(* fish or no SHELL, with or without the configuration directory of fish.  *)
InitSwitcher ==
    /\ \E i \in InitialStates :
          /\ disk = i[1]
          /\ env \in {i[2], Put(i[2], "SHELL", "/usr/bin/fish"), Del(i[2], "SHELL")}
    /\ installations = disk.installations
    /\ profiles = disk.profiles
    /\ active_profile = disk.active_profile
    /\ bins = EmptyMap
    /\ shellrc \in {EmptyMap, InitialShellrc}
    /\ dirs \in {HomeDirs, ShellDirs}
    /\ shell_type = detect_shell(env)
    /\ envfile = None
    /\ groups = DefaultGroups
    /\ groups_file = DefaultGroups
    /\ peer = NoPeer
    /\ shell_env = env
    /\ last = NoOp
    /\ nops = 0

SpecSwitcher == InitSwitcher /\ [][NextSwitcher]_vars

(* The marker lines of the startup file.                                   *)
MarkerLines ==
    IF MarkerFile = None THEN <<>>
    ELSE SelectSeq(FileLines(MarkerFile[1]), IsMarkerLine)

(* C35 as stated: the marker agrees with the pointer.  After any sequence  *)
(* of successful switch_profile, activate_profile and deactivate_current   *)
(* calls, every marker line of the startup file names the profile held by  *)
(* the active-profile pointer.                                             *)
C35_MarkerAgrees ==
    \A i \in DOMAIN MarkerLines :
        /\ active_profile # None
        /\ MarkerLines[i] = MarkerLine(active_profile[1])

(* C35 as amended: after a successful switch_profile(p) the last line of   *)
(* the startup file is the marker line naming p, and p is the profile held *)
(* by the pointer, in memory and in the file.                              *)
C35_SwitchWritesMarker ==
    (IsSwitch /\ last.ok) =>
        /\ MarkerFile # None
        /\ FileLines(MarkerFile[1]) # <<>>
        /\ FileLines(MarkerFile[1])[Len(FileLines(MarkerFile[1]))] = MarkerLine(last.name)
        /\ active_profile = Some(last.name)
        /\ disk.active_profile = Some(last.name)

(* Reached: a switch from one active profile to another, over a startup    *)
(* file whose marker named the old one.                                    *)
C35_Witness ==
    /\ IsSwitch
    /\ last.ok
    /\ last.pre.active_profile # None
    /\ last.pre.active_profile # Some(last.name)
    /\ PreMarkerFile # None
    /\ Contains(PreMarkerFile[1], MarkerLine(last.pre.active_profile[1]))
    /\ MarkerLines = <<MarkerLine(last.name)>>

----------------------------------------------------------------------------
(* A switch that asks for a profile that is not registered while a profile *)
(* is active, and fails at step 2 for that reason.                         *)
IsRejectedSwitch ==
    /\ IsSwitch
    /\ last.name \notin DOMAIN last.pre.profiles
    /\ last.pre.active_profile # None
    /\ FailedStep = 2

(* The PATH entries that reversing the environment of profile `old` takes  *)
(* out: its listed paths, expanded, and its bin directory.                 *)
ReversedEntries(old) ==
    ExpandedPaths(last.pre.env, last.pre.profiles[old].environment) \cup {BinDirOf(old)}

(* C36 as stated: a rejected switch has no environment effect.  PATH and   *)
(* the process variables are the same after the call as before it.         *)
C36_RejectedSwitchNoEffect ==
    IsRejectedSwitch => env = last.pre.env

(* C36 as amended: a rejected switch returns the error of step 2 with the  *)
(* pointer, the ledger and the registry unchanged, and with step 1 done    *)
(* and not rolled back: when the old profile is registered, its variables  *)
(* are removed from the process and PATH is the PATH of before without the *)
(* old profile's listed paths and bin directory, the other entries in      *)
(* their order; every other variable is as before (HOME is set: step 1     *)
(* needs it for the bin directory).                                        *)
C36_RejectedSwitchReversed ==
    IsRejectedSwitch =>
        /\ ~last.ok
        /\ Mem = PreMem
        /\ last.pre.active_profile[1] \notin DOMAIN last.pre.profiles => env = last.pre.env
        /\ last.pre.active_profile[1] \in DOMAIN last.pre.profiles =>
              /\ HasVar(last.pre.env, "HOME")
              /\ DOMAIN env = (DOMAIN last.pre.env
                    \ DOMAIN last.pre.profiles[last.pre.active_profile[1]].environment.variables)
                    \cup {"PATH"}
              /\ \A k \in DOMAIN env \ {"PATH"} : env[k] = last.pre.env[k]
              /\ Split(VarOrDefault(env, "PATH"), ":")
                    = SelectSeq(Split(VarOrDefault(last.pre.env, "PATH"), ":"),
                                LAMBDA p : p \notin ReversedEntries(last.pre.active_profile[1]))

(* Reached: the old profile's variable and bin directory were in the       *)
(* process environment before the rejected switch and are gone after it.   *)
C36_Witness ==
    /\ IsRejectedSwitch
    /\ last.pre.active_profile[1] \in DOMAIN last.pre.profiles
    /\ "EDITOR" \in DOMAIN last.pre.env
    /\ "EDITOR" \notin DOMAIN env
    /\ BinDirOf(last.pre.active_profile[1]) \in PathEntries(last.pre.env)
    /\ BinDirOf(last.pre.active_profile[1]) \notin PathEntries(env)

----------------------------------------------------------------------------
(* The last call is create_profile of a name that was registered.          *)
IsRecreate == last.op = "create_profile" /\ last.name \in DOMAIN last.pre.profiles

(* C39: create_profile on an existing name replaces the profile.  The call *)
(* succeeds; the profile of that name then has an empty package set and    *)
(* the default environment; the ledger, with every active_for that holds   *)
(* the name, every other profile and the active-profile pointer are as     *)
(* before.                                                                 *)
C39_RecreateReplaces ==
    IsRecreate =>
        /\ last.ok
        /\ DOMAIN profiles = DOMAIN last.pre.profiles
        /\ profiles[last.name].name = last.name
        /\ profiles[last.name].packages = {}
        /\ profiles[last.name].environment = DefaultEnvironmentState
        /\ profiles[last.name].os_overrides = EmptyMap
        /\ installations = last.pre.installations
        /\ \A f \in DOMAIN profiles \ {last.name} : profiles[f] = last.pre.profiles[f]
        /\ active_profile = last.pre.active_profile

(* Reached: an active profile with packages and an environment, named in   *)
(* the active_for of a ledger record, is created again: its packages and   *)
(* environment are gone, the record still names it, and it is still the    *)
(* active profile.                                                         *)
C39_Witness ==
    /\ IsRecreate
    /\ last.ok
    /\ last.pre.profiles[last.name].packages # {}
    /\ last.pre.profiles[last.name].environment # DefaultEnvironmentState
    /\ \E p \in DOMAIN installations : last.name \in installations[p].active_for
    /\ active_profile = Some(last.name)
    /\ profiles[last.name].packages = {}
    /\ \E f \in DOMAIN profiles \ {last.name} : profiles[f].packages # {}

----------------------------------------------------------------------------
(* ProfileSwitcher::switch_profile called twice in a row for one profile,  *)
(* from configurations with profiles, over process PATHs that do or do not *)
(* hold a listed path of the profile already, and over startup files with  *)
(* none, one or two marker lines.                                          *)

IdempotencePaths == {"/usr/bin:/bin", "/usr/bin:/h/w"}

IdempotenceFiles ==
    {EmptyMap}
        \cup {OneFile(path_join(HomeDir, ".zshrc"), c) :
                c \in {"alias x=y", "# ZSHRCMAN_PROFILE: old\nalias x=y\n",
                       "# ZSHRCMAN_PROFILE: old\n# ZSHRCMAN_PROFILE: z\n"}}

InitIdempotence ==
    /\ disk \in {ManualConfig, SeededConfig}
    /\ installations = disk.installations
    /\ profiles = disk.profiles
    /\ active_profile = disk.active_profile
    /\ \E path \in IdempotencePaths : env = Put(EnvWithHome, "PATH", path)
    /\ bins = EmptyMap
    /\ shellrc \in IdempotenceFiles
    /\ dirs = HomeDirs
    /\ shell_type = detect_shell(env)
    /\ envfile = None
    /\ groups = DefaultGroups
    /\ groups_file = DefaultGroups
    /\ peer = NoPeer
    /\ shell_env = env
    /\ last = NoOp
    /\ nops = 0

SpecIdempotence == InitIdempotence /\ [][NextSwitcher]_vars

(* The last call is a successful switch_profile(p) that follows a          *)
(* successful switch_profile(p).                                           *)
IsRepeatedSwitch == IsSwitch /\ last.ok /\ last.repeat

(* C37: switch_profile is idempotent on its target.  The second of two     *)
(* consecutive successful switch_profile(p) calls leaves the pointer, the  *)
(* persisted snapshot, PATH, the bin directory of p and the startup file   *)
(* as the first call left them.                                            *)
C37_SwitchIdempotent ==
    IsRepeatedSwitch =>
        /\ active_profile = last.pre.active_profile
        /\ disk = last.pre.disk
        /\ VarOrDefault(env, "PATH") = VarOrDefault(last.pre.env, "PATH")
        /\ BinEntries(World("none"), last.name) = BinEntries(PreWorld, last.name)
        /\ shellrc = last.pre.shellrc

----------------------------------------------------------------------------
(* The group commands on their own: add, remove, enable and disable of     *)
(* global groups, starting from the default configuration.                 *)

GroupNames == {"default", "zshrc"}

(* A save of a group command succeeds, fails at the open or fails at the   *)
(* write.                                                                  *)
GroupFaults == {"none", "save1", "save1w"}

InitGroups ==
    /\ disk = DefaultConfig
    /\ installations = disk.installations
    /\ profiles = disk.profiles
    /\ active_profile = disk.active_profile
    /\ env = EnvWithHome
    /\ bins = EmptyMap
    /\ shellrc = InitialShellrc
    /\ dirs = HomeDirs
    /\ shell_type = detect_shell(env)
    /\ envfile = None
    /\ groups = DefaultGroups
    /\ groups_file = DefaultGroups
    /\ peer = NoPeer
    /\ shell_env = env
    /\ last = NoOp
    /\ nops = 0

(* A group command returns.  The group lists range over finitely many      *)
(* values, so the group commands are not limited in number and are not     *)
(* counted; the installs, which each add to the startup file, are.         *)
GroupReturn(w, call) ==
    /\ nops' = nops
    /\ groups' = w.groups
    /\ groups_file' = w.groups_file
    /\ disk' = w.disk
    /\ installations' = w.installations
    /\ profiles' = w.profiles
    /\ active_profile' = w.active_profile
    /\ last' = [call EXCEPT !.ok = ~w.err, !.pre = Pre, !.saves = w.nsaves]
    /\ env' = w.env
    /\ UNCHANGED <<shell_env, bins, shellrc, dirs, shell_type, envfile, peer>>

(* A new invocation of the program: handle_group_command builds a new      *)
(* ConfigManager, which holds what the file reads as.                      *)
NewConfigManager ==
    GroupReturn(NewProcess("none"), [NoOp EXCEPT !.op = "ConfigManager::new"])

AddGlobalGroup ==
    \E name \in GroupNames, fault \in GroupFaults :
        GroupReturn(add_global_group(World(fault), name),
                    [NoOp EXCEPT !.op = "add_global_group", !.name = name])

RemoveGlobalGroup ==
    \E name \in GroupNames, fault \in GroupFaults :
        GroupReturn(remove_global_group(World(fault), name),
                    [NoOp EXCEPT !.op = "remove_global_group", !.name = name])

EnableGlobalGroup ==
    \E name \in GroupNames, fault \in GroupFaults :
        GroupReturn(enable_global_group(World(fault), name),
                    [NoOp EXCEPT !.op = "enable_global_group", !.name = name])

DisableGlobalGroup ==
    \E name \in GroupNames, fault \in GroupFaults :
        GroupReturn(disable_global_group(World(fault), name),
                    [NoOp EXCEPT !.op = "disable_global_group", !.name = name])

NextGroups ==
    \/ AddGlobalGroup
    \/ RemoveGlobalGroup
    \/ EnableGlobalGroup
    \/ DisableGlobalGroup
    \/ NewConfigManager
    \/ Install
    \/ InitCommand

SpecGroups == InitGroups /\ [][NextGroups]_vars

(* The last call is one the group commands reject.                         *)
IsRejectedGroupCall ==
    \/ last.op = "remove_global_group" /\ last.name = "default"
    \/ last.op = "enable_global_group" /\ ~vec_contains(last.pre.groups.global, last.name)

(* Every enabled name is a defined name, no name is defined twice and      *)
(* "default" is defined.                                                   *)
GroupsWellFormed(g) ==
    /\ \A i \in DOMAIN g.enabled_global : vec_contains(g.global, g.enabled_global[i])
    /\ \A i, j \in DOMAIN g.global : g.global[i] = g.global[j] => i = j
    /\ vec_contains(g.global, "default")

(* The last call is one of the four group commands.                        *)
IsGroupCall ==
    last.op \in {"add_global_group", "remove_global_group",
                 "enable_global_group", "disable_global_group"}

(* C40: enabled groups are defined groups.  In the default configuration   *)
(* every enabled name is a defined name, no name is defined twice and      *)
(* "default" is defined, and each of add, remove, enable and disable of a  *)
(* global group keeps the three, whether its save succeeds or fails: so    *)
(* they hold after any sequence of the four calls on one manager.          *)
(* Removing "default" and enabling an undefined name return an error and   *)
(* change nothing, in memory or in the file.                               *)
C40_EnabledAreDefined ==
    /\ last.op = "init" => GroupsWellFormed(groups)
    /\ (IsGroupCall /\ GroupsWellFormed(last.pre.groups)) => GroupsWellFormed(groups)
    /\ IsRejectedGroupCall =>
            /\ ~last.ok
            /\ groups = last.pre.groups
            /\ groups_file = last.pre.groups_file

(* Reached: a group that was defined and enabled is removed and is gone    *)
(* from both lists, in memory and in the file.                             *)
C40_Witness ==
    /\ last.op = "remove_global_group"
    /\ last.ok
    /\ GroupsWellFormed(last.pre.groups)
    /\ vec_contains(last.pre.groups.enabled_global, last.name)
    /\ ~vec_contains(groups.global, last.name)
    /\ ~vec_contains(groups.enabled_global, last.name)
    /\ groups_file = groups

====
